---- MODULE Spec2Model ----
(***************************************************************************)
(* Model of the board scene of src/src/game/phaser-board.tsx: the scene's  *)
(* fields (grid, boardSize, cellMap, currentPlay, accumulatedWin, metrics), *)
(* the scene clock's pending delayed calls, and the notifications emitted  *)
(* on gameBus.  Phaser's Clock and TweenManager are library code: they are *)
(* modelled by their API contract (delayedCall fires its callback once     *)
(* after the delay, removeAllEvents / killAll drop everything pending).    *)
(* An optional value (undefined in the source) is a sequence of length 0   *)
(* or 1.  Grids are sequences of rows; cell references are 0-based records *)
(* [row, col] as in the source.                                            *)
(***************************************************************************)
EXTENDS Integers, Sequences, FiniteSets, TLC

VARIABLES
    fillMode,        \* fillModeRef.current: "replace" | "cascade" | "rodillo" | "unset"
    previewMode,     \* modeRef.current
    previewSize,     \* previewSizeRef.current (optional)
    container,       \* clientWidth / clientHeight of the container element
    metrics,         \* BoardScene.metrics (metricsRef.current)
    boardSize,       \* BoardScene.boardSize
    grid,            \* BoardScene.grid
    cellMap,         \* BoardScene.cellMap: key <<row, col>> -> symbol carried by the handle
    currentPlay,     \* BoardScene.currentPlay (optional)
    accumulatedWin,  \* BoardScene.accumulatedWin
    reel,            \* closure state of the rodillo intro (columnStates, counters)
    timers,          \* scene clock and tween manager: pending callbacks, in insertion order
    log,             \* notifications emitted on gameBus since the last renderPlay / clearBoard
    prev,            \* history: the phase the latest renderPlay / clearBoard interrupted
                     \* (and whether it resubmitted a completed outcome), kept until
                     \* the clock next fires
    measured,        \* computeMetrics: the latest call's arguments and returned metrics
    highlight,       \* playBonusTriggerHighlight: the latest call's arguments and highlightTargets
    money,           \* formatMoney: the latest call's arguments and returned text
    current,         \* createStateMachine: current
    ctx,             \* createStateMachine: ctx
    machineCalls,    \* history: the initial state given to createStateMachine and the
                     \* transition calls made since
    handlers,        \* createEventBus: handlers (event -> handlers in insertion order)
    unsubscribes,    \* createEventBus: the Unsubscribe closures returned by on so far
    delivered,       \* history: the handler invocations made so far, in order, each with
                     \* the number of the bus call during which it ran
    busCalls,        \* history: the calls made to the event bus so far
    refill,          \* animateStep's refill: the latest call's arguments, the handle map
                     \* it left and the handles it destroyed
    page,            \* Home (page.tsx): the game state shown, the request in flight, the
                     \* pending END_TICKET timeouts and the transitions made so far
    client,          \* api/client.ts: pending, socket, connecting, with the sockets and
                     \* promises created and the requests made so far
    effects          \* the transient effect objects of the scene (contour graphics,
                     \* badges, rings, sparks) with the tweens and timers that end them

\* the scene
sceneVars == <<fillMode, previewMode, previewSize, container, metrics, boardSize, grid, cellMap,
               currentPlay, accumulatedWin, reel, timers, log, prev>>

machineVars == <<current, ctx, machineCalls>>
busVars == <<handlers, unsubscribes, delivered, busCalls>>

\* the modules beside the scene: bonus highlight targets, money format, state
\* machine, event bus
side == <<measured, highlight, money, current, ctx, machineCalls, handlers, unsubscribes,
          delivered, busCalls, refill, page, client, effects>>

vars == <<fillMode, previewMode, previewSize, container, metrics, boardSize, grid, cellMap,
          currentPlay, accumulatedWin, reel, timers, log, prev,
          measured, highlight, money, current, ctx, machineCalls, handlers, unsubscribes,
          delivered, busCalls, refill, page, client, effects>>

----------------------------------------------------------------------------
(* Bounds *)

MaxSteps == 2

----------------------------------------------------------------------------
(* Program constants *)

BONUS_TRIGGER_SYMBOL == "N"
BONUS_HIGHLIGHT_LIMIT == 3
MATCH_CONTOUR_DURATION == 340
LEVEL_ONE_PREVIEW_SIZE == [rows |-> 3, cols |-> 5]
LEVEL_TWO_PREVIEW_SIZE == [rows |-> 7, cols |-> 5]

Max(a, b) == IF a >= b THEN a ELSE b
Min(a, b) == IF a <= b THEN a ELSE b

----------------------------------------------------------------------------
(* Inputs: the outcomes the server may send (PlayOutcome, api types).      *)

Cell(r, c) == [row |-> r, col |-> c]

Grid0A == << <<"A", "N">>, <<"B", "N">> >>

\* match step, winStep 10, removes column 0
StepM1 ==
    [removeCells |-> <<Cell(0, 0), Cell(1, 0)>>,
     dropIn |-> << [col |-> 0, symbols |-> <<"B", "C">>] >>,
     winStep |-> 10,
     gridAfter |-> << << <<"B", "N">>, <<"C", "N">> >> >>,
     bonus |-> FALSE,
     bonusData |-> <<>>]

\* match step, winStep 25, removes the top cell of column 1
StepM2 ==
    [removeCells |-> <<Cell(0, 1)>>,
     dropIn |-> << [col |-> 1, symbols |-> <<"A">>] >>,
     winStep |-> 25,
     gridAfter |-> << << <<"B", "A">>, <<"C", "N">> >> >>,
     bonus |-> FALSE,
     bonusData |-> <<>>]

\* match step without win, removes the bottom cell of column 1
StepZ ==
    [removeCells |-> <<Cell(1, 1)>>,
     dropIn |-> << [col |-> 1, symbols |-> <<"C">>] >>,
     winStep |-> 0,
     gridAfter |-> << << <<"A", "C">>, <<"B", "N">> >> >>,
     bonus |-> FALSE,
     bonusData |-> <<>>]

\* bonus step, triggerCells omitted
StepB ==
    [removeCells |-> <<>>,
     dropIn |-> <<>>,
     winStep |-> 0,
     gridAfter |-> <<>>,
     bonus |-> TRUE,
     bonusData |-> << [triggerCount |-> 3, triggerCells |-> <<>>] >>]

\* bonus step that also carries a win, cells to remove, a dropIn and a
\* gridAfter; its triggerCells name a cell that does not hold the trigger symbol
StepBW ==
    [removeCells |-> <<Cell(0, 0)>>,
     dropIn |-> << [col |-> 0, symbols |-> <<"C">>] >>,
     winStep |-> 7,
     gridAfter |-> << << <<"C", "N">>, <<"B", "N">> >> >>,
     bonus |-> TRUE,
     bonusData |-> << [triggerCount |-> 1, triggerCells |-> << <<Cell(0, 0)>> >>] >>]

\* malformed match step: cells outside the board, dropIn for a column outside
\* the board, gridAfter of another shape
StepX ==
    [removeCells |-> <<Cell(5, 5), Cell(-1, 0), Cell(0, 0)>>,
     dropIn |-> << [col |-> 7, symbols |-> <<"A">>] >>,
     winStep |-> 5,
     gridAfter |-> << << <<"C", "C", "C">> >> >>,
     bonus |-> FALSE,
     bonusData |-> <<>>]

\* match step with nothing to remove and no gridAfter
StepE ==
    [removeCells |-> <<>>,
     dropIn |-> <<>>,
     winStep |-> 0,
     gridAfter |-> <<>>,
     bonus |-> FALSE,
     bonusData |-> <<>>]

\* match step without dropIn (allowed for in-place fill): removes the top cell of column 0
StepD ==
    [removeCells |-> <<Cell(0, 0)>>,
     dropIn |-> <<>>,
     winStep |-> 10,
     gridAfter |-> << << <<"C", "N">>, <<"B", "N">> >> >>,
     bonus |-> FALSE,
     bonusData |-> <<>>]

\* A play is held by reference: an id names the outcome, PlayOf gives its content.
StepOf(name) ==
    CASE name = "M1" -> StepM1
      [] name = "M2" -> StepM2
      [] name = "Z" -> StepZ
      [] name = "B" -> StepB
      [] name = "BW" -> StepBW
      [] name = "X" -> StepX
      [] name = "E" -> StepE
      [] name = "D" -> StepD

RECURSIVE SeqsUpTo(_, _)
SeqsUpTo(S, n) ==
    IF n = 0 THEN {<<>>}
    ELSE LET shorter == SeqsUpTo(S, n - 1)
         IN  shorter \cup {Append(q, x) : q \in {t \in shorter : Len(t) = n - 1}, x \in S}

RECURSIVE SumWins(_)
SumWins(cs) ==
    IF cs = <<>> THEN 0
    ELSE (IF cs[1].bonus THEN 0 ELSE cs[1].winStep) + SumWins(Tail(cs))

PlayId(name, g0, steps) == [name |-> name, g0 |-> g0, steps |-> steps]

Grid0Of(g0) ==
    CASE g0 = "A" -> Grid0A
      [] g0 = "ragged" -> << <<"a">>, <<"B", "N">> >>
      [] g0 = "empty" -> <<>>

PlayOf(id) ==
    LET cs == [i \in 1..Len(id.steps) |-> StepOf(id.steps[i])]
    IN  [playId |-> id.name, grid0 |-> Grid0Of(id.g0), cascades |-> cs,
         totalWin |-> SumWins(cs)]

\* outcomes on the 2 x 2 board: every list of up to MaxSteps winning match
\* steps and bonus steps
RegularPlays == {PlayId("p1", "A", cs) : cs \in SeqsUpTo({"M1", "M2", "B"}, MaxSteps)}

\* outcomes with a match step without win
ZeroWinPlays ==
    {PlayId("p1", "A", <<"Z">>), PlayId("p1", "A", <<"M1", "Z">>),
     PlayId("p1", "A", <<"Z", "B">>)}

\* outcomes with a step without dropIn, with malformed steps, with a ragged or
\* empty grid0, or with an empty playId
OddPlays ==
    {PlayId("p1", "A", <<"D">>),
     PlayId("p1", "A", <<"X", "M1">>),
     PlayId("p1", "A", <<"B", "X">>),
     PlayId("p1", "A", <<"BW", "M1">>),
     PlayId("p2", "ragged", <<"BW", "B">>),
     PlayId("p2", "ragged", <<"X", "E">>),
     PlayId("p3", "empty", <<"E", "M1">>),
     PlayId("", "A", <<"M1">>)}

Plays == RegularPlays \cup ZeroWinPlays \cup OddPlays

FillModes == {"replace", "cascade", "rodillo", "unset"}
PreviewConfigs ==
    {[mode |-> "nivel1", size |-> <<>>],
     [mode |-> "unset", size |-> <<>>],
     [mode |-> "unset", size |-> << [rows |-> 2, cols |-> 3] >>]}
\* container (clientWidth, clientHeight); 0 stands for an unmeasured container
ContainerSizes == {[w |-> 320, h |-> 0], [w |-> 800, h |-> 600]}

----------------------------------------------------------------------------
(* Pure helpers *)

\* safeGrid[r]?.[c] ?? ""
CellAt(g, row, col) ==
    IF row >= 0 /\ row < Len(g)
    THEN IF col >= 0 /\ col < Len(g[row + 1]) THEN g[row + 1][col + 1] ELSE ""
    ELSE ""

\* mutant: row and column index swapped when reading the source grid
normalizeGridTransposed(g, rows, cols) ==
    [r \in 1..rows |-> [c \in 1..cols |-> CellAt(g, c - 1, r - 1)]]

\* mutant: an existing row is taken as it is, neither padded nor cropped
normalizeGridRowsOnly(g, rows, cols) ==
    [r \in 1..rows |-> IF r <= Len(g) THEN g[r] ELSE [c \in 1..cols |-> ""]]

normalizeGrid(g, rows, cols) ==
    [r \in 1..rows |-> [c \in 1..cols |-> CellAt(g, r - 1, c - 1)]]

\* play and size are optional values
pickBoardSize(play, mode, size) ==
    IF play # <<>> /\ Len(PlayOf(play[1]).grid0) > 0 /\ Len(PlayOf(play[1]).grid0[1]) > 0
    THEN [rows |-> Len(PlayOf(play[1]).grid0), cols |-> Len(PlayOf(play[1]).grid0[1])]
    ELSE IF size # <<>> /\ size[1].rows # 0 /\ size[1].cols # 0
    THEN [rows |-> Max(1, size[1].rows), cols |-> Max(1, size[1].cols)]
    ELSE IF mode = "nivel1" THEN LEVEL_ONE_PREVIEW_SIZE
    ELSE LEVEL_TWO_PREVIEW_SIZE

Coords(rows, cols) == (0..(rows - 1)) \X (0..(cols - 1))

----------------------------------------------------------------------------
(* Layout *)

\* lengths that depend on the cell size are kept in units of 1/Scale pixel,
\* so that usable / cols and usable / rows are exact for the modelled boards
Scale == 2 * 3 * 5 * 7

DEFAULT_METRICS ==
    [cellSize |-> 70 * Scale, gap |-> 8, offsetY |-> 32, padding |-> 0,
     width |-> 640 * Scale, height |-> 640 * Scale, rows |-> 7, cols |-> 5]

\* mutant: the cell size has no lower limit
computeMetricsNoFloor(play, containerWidth, containerHeight, mode, size) ==
    LET picked == pickBoardSize(play, mode, size)
        rows == Max(1, picked.rows)
        cols == Max(1, picked.cols)
        safeWidth == IF containerWidth > 0 THEN containerWidth ELSE 640
        safeHeight == IF containerHeight > 0 THEN containerHeight ELSE 640
        padding == IF safeWidth >= 640 THEN 12 ELSE 8
        gap == 2
        offsetY == 32
        usableByWidth == Max(120, safeWidth - padding * 2 - gap * (cols - 1))
        usableByHeight == Max(120, safeHeight - offsetY - padding * 2 - gap * (rows - 1))
        rawCellByWidth == (usableByWidth * Scale) \div cols
        rawCellByHeight == (usableByHeight * Scale) \div rows
        rawCell == Min(rawCellByWidth, rawCellByHeight)
        cellSize == Min(72 * Scale, rawCell)
    IN  [cellSize |-> cellSize, gap |-> gap, offsetY |-> offsetY, padding |-> padding,
         width |-> (padding * 2 + gap * (cols - 1)) * Scale + cols * cellSize,
         height |-> (offsetY + gap * (rows - 1) + padding) * Scale + rows * cellSize,
         rows |-> rows, cols |-> cols]

\* mutant: the height of the container is not taken into account
computeMetricsWidthOnly(play, containerWidth, containerHeight, mode, size) ==
    LET picked == pickBoardSize(play, mode, size)
        rows == Max(1, picked.rows)
        cols == Max(1, picked.cols)
        safeWidth == IF containerWidth > 0 THEN containerWidth ELSE 640
        safeHeight == IF containerHeight > 0 THEN containerHeight ELSE 640
        padding == IF safeWidth >= 640 THEN 12 ELSE 8
        gap == 2
        offsetY == 32
        usableByWidth == Max(120, safeWidth - padding * 2 - gap * (cols - 1))
        usableByHeight == Max(120, safeHeight - offsetY - padding * 2 - gap * (rows - 1))
        rawCellByWidth == (usableByWidth * Scale) \div cols
        rawCellByHeight == (usableByHeight * Scale) \div rows
        rawCell == rawCellByWidth
        cellSize == Min(72 * Scale, Max(20 * Scale, rawCell))
    IN  [cellSize |-> cellSize, gap |-> gap, offsetY |-> offsetY, padding |-> padding,
         width |-> (padding * 2 + gap * (cols - 1)) * Scale + cols * cellSize,
         height |-> (offsetY + gap * (rows - 1) + padding) * Scale + rows * cellSize,
         rows |-> rows, cols |-> cols]

computeMetrics(play, containerWidth, containerHeight, mode, size) ==
    LET picked == pickBoardSize(play, mode, size)
        rows == Max(1, picked.rows)
        cols == Max(1, picked.cols)
        safeWidth == IF containerWidth > 0 THEN containerWidth ELSE 640
        safeHeight == IF containerHeight > 0 THEN containerHeight ELSE 640
        padding == IF safeWidth >= 640 THEN 12 ELSE 8
        gap == 2
        offsetY == 32
        usableByWidth == Max(120, safeWidth - padding * 2 - gap * (cols - 1))
        usableByHeight == Max(120, safeHeight - offsetY - padding * 2 - gap * (rows - 1))
        rawCellByWidth == (usableByWidth * Scale) \div cols
        rawCellByHeight == (usableByHeight * Scale) \div rows
        rawCell == Min(rawCellByWidth, rawCellByHeight)
        cellSize == Min(72 * Scale, Max(20 * Scale, rawCell))
    IN  [cellSize |-> cellSize, gap |-> gap, offsetY |-> offsetY, padding |-> padding,
         width |-> (padding * 2 + gap * (cols - 1)) * Scale + cols * cellSize,
         height |-> (offsetY + gap * (rows - 1) + padding) * Scale + rows * cellSize,
         rows |-> rows, cols |-> cols]

\* resizeMetrics / the props effect: clientWidth || 640, clientHeight || 640
measuredMetrics(play, box, mode, size) ==
    computeMetrics(play,
                   IF box.w # 0 THEN box.w ELSE 640,
                   IF box.h # 0 THEN box.h ELSE 640,
                   mode, size)

----------------------------------------------------------------------------
(* Scene helpers *)

\* drawGrid: one new handle per board coordinate, carrying the grid's symbol
drawGrid(g, rows, cols) ==
    [k \in Coords(rows, cols) |-> g[k[1] + 1][k[2] + 1]]

Timer(delay, kind, idx, play, stale) ==
    [delay |-> delay, kind |-> kind, idx |-> idx, play |-> play, stale |-> stale]

\* an emitted notification; stale marks one emitted by a callback that was
\* scheduled before the last renderPlay / clearBoard
Emitted(ev, stale) == [stale |-> stale, ev |-> ev]

\* this.currentPlay?.playId is truthy
HasPlayId(cur) == cur # <<>> /\ PlayOf(cur[1]).playId # ""

----------------------------------------------------------------------------
(* playBoardIntro *)

FALLBACK_STRIP_SYMBOLS ==
    <<"A", "B", "C", "D", "E", "F", "G", "H", "I", "J", "K", "L", "M", "N", "O">>

\* (symbol || "").trim().toUpperCase(), on the symbols the model uses
safeSymbol(sym) ==
    IF sym = "a" THEN "A" ELSE IF sym = "b" THEN "B" ELSE IF sym = " " THEN "" ELSE sym

RECURSIVE Flat(_)
Flat(g) == IF g = <<>> THEN <<>> ELSE g[1] \o Flat(Tail(g))

InSeq(x, q) == \E i \in 1..Len(q) : q[i] = x

\* Array.from(new Set(list.map(safe).filter(Boolean))): first occurrences, in order
RECURSIVE DistinctSafe(_, _)
DistinctSafe(list, acc) ==
    IF list = <<>> THEN acc
    ELSE LET sym == safeSymbol(list[1])
         IN  DistinctSafe(Tail(list),
                          IF sym = "" \/ InSeq(sym, acc) THEN acc ELSE Append(acc, sym))

reelSymbols(g) ==
    LET symbolPool == DistinctSafe(Flat(g), <<>>)
    IN  IF Len(symbolPool) > 0 THEN symbolPool ELSE FALLBACK_STRIP_SYMBOLS

\* Math.random: the strip of a column is the pool repeated, read from a
\* start index drawn from StartIndices (one draw per intro)
StartIndices == {0, 1}

stripSymbol(pool, cursor, rowIdx) == pool[((cursor + rowIdx) % Len(pool)) + 1]

ReelIdle ==
    [active |-> FALSE, live |-> FALSE, rows |-> 0, cols |-> 0, pool |-> <<>>,
     spinning |-> <<>>, cursor |-> <<>>, steps |-> 0, stopScheduled |-> FALSE]

\* the entrance tweens playBoardIntro starts at once, one per handle: cascade
\* and rodillo stagger the columns, the default staggers the cells in row-major
\* order (the settle tweens of rodillo are started later, by the stop sequence)
introTweens(mode, rows, cols) ==
    {[row |-> k[1], col |-> k[2],
      delay |-> IF mode = "rodillo" THEN k[2] * 320
                ELSE IF mode = "cascade" THEN k[2] * 120
                ELSE (k[1] * cols + k[2]) * 40,
      duration |-> IF mode = "rodillo" THEN 280
                   ELSE IF mode = "cascade" THEN 380
                   ELSE 260] : k \in Coords(rows, cols)}

\* mutant: the stagger is left out of the returned duration
introDurationWithoutStagger(mode, rows, cols) ==
    IF mode = "rodillo"
    THEN LET dropPhase == (cols - 1) * 320 + 280
             stopPhase == (rows * 2) * 90 + Max(0, cols - 1) * 220 + 260
         IN  dropPhase + stopPhase
    ELSE IF mode = "cascade"
    THEN 380
    ELSE 260

introDuration(mode, rows, cols) ==
    IF mode = "rodillo"
    THEN LET dropPhase == (cols - 1) * 320 + 280
             stopPhase == (rows * 2) * 90 + Max(0, cols - 1) * 220 + 260
         IN  dropPhase + stopPhase
    ELSE IF mode = "cascade"
    THEN (cols - 1) * 120 + 380
    ELSE 260 + (rows * cols - 1) * 40

\* timers the intro adds: the looping spin timer, then one drop call per column
introTimers(mode, cols, play) ==
    IF mode = "rodillo"
    THEN <<Timer(90, "spin", 0, play, FALSE)>>
         \o [c \in 1..cols |-> Timer((c - 1) * 320, "dropCol", c - 1, play, FALSE)]
    ELSE <<>>

introReel(mode, g, rows, cols, start) ==
    IF mode = "rodillo"
    THEN LET pool == reelSymbols(g)
         IN  [active |-> TRUE, live |-> TRUE, rows |-> rows, cols |-> cols,
              pool |-> pool,
              spinning |-> [c \in 1..cols |-> FALSE],
              cursor |-> [c \in 1..cols |-> (start + rows) % Len(pool)],
              steps |-> 0, stopScheduled |-> FALSE]
    ELSE ReelIdle

\* handles after the intro has set them up: in rodillo every cell shows a strip symbol
introCells(mode, g, rows, cols, rl) ==
    IF mode = "rodillo"
    THEN [k \in Coords(rows, cols) |-> stripSymbol(rl.pool, rl.cursor[k[2] + 1], k[1])]
    ELSE drawGrid(g, rows, cols)

----------------------------------------------------------------------------
(* Lifecycle: renderPlay, clearBoard, metrics-changed *)

\* the callbacks of the step sequencer (renderPlay.runStep and animateStep's chain)
ChainKinds == {"runStep", "startRemoval", "apply", "stepDone", "bonusDone"}

ChainIdxs(ts) == {i \in 1..Len(ts) : ts[i].kind \in ChainKinds}

NoPrev == [phase |-> "none", same |-> FALSE]

\* the phase the scene is in: what a renderPlay / clearBoard called now interrupts
PhaseNow ==
    IF ChainIdxs(timers) = {}
    THEN IF currentPlay = <<>> THEN "idle" ELSE "completed"
    ELSE LET t == timers[CHOOSE i \in ChainIdxs(timers) : TRUE]
         IN  CASE t.kind = "runStep" -> IF t.idx = 0 THEN "intro" ELSE "pause"
               [] t.kind = "startRemoval" -> "contour"
               [] t.kind = "apply" -> "removal"
               [] t.kind = "stepDone" -> "refill"
               [] t.kind = "bonusDone" -> "bonus"

\* mutant: the pending callbacks are left in place
keepAllEvents(ts) == ts

\* this.time.removeAllEvents(); this.tweens.killAll()
removeAllEvents(ts) == <<>>

\* callbacks that survive a renderPlay / clearBoard belong to a previous run
MarkStale(ts) == [i \in 1..Len(ts) |-> [ts[i] EXCEPT !.stale = TRUE]]

renderPlay(play, start) ==
    /\ currentPlay' = <<play>>
    /\ accumulatedWin' = 0
    /\ boardSize' = [rows |-> Max(1, pickBoardSize(<<play>>, previewMode', previewSize').rows),
                     cols |-> Max(1, pickBoardSize(<<play>>, previewMode', previewSize').cols)]
    /\ grid' = normalizeGrid(PlayOf(play).grid0, boardSize'.rows, boardSize'.cols)
    /\ reel' = introReel(fillMode', grid', boardSize'.rows, boardSize'.cols, start)
    /\ cellMap' = introCells(fillMode', grid', boardSize'.rows, boardSize'.cols, reel')
    /\ timers' = MarkStale(removeAllEvents(timers))
                    \o introTimers(fillMode', boardSize'.cols, <<play>>)
                    \o <<Timer(Max(320, introDuration(fillMode', boardSize'.rows,
                                                      boardSize'.cols) + 120),
                               "runStep", 0, <<play>>, FALSE)>>
    /\ log' = <<>>
    /\ prev' = [phase |-> PhaseNow,
                 same |-> PhaseNow = "completed" /\ currentPlay = <<play>>]

\* mutant: the board keeps the size of the previous play
clearBoardKeepsSize ==
    /\ currentPlay' = <<>>
    /\ accumulatedWin' = 0
    /\ boardSize' = boardSize
    /\ grid' = normalizeGrid(<<>>, boardSize'.rows, boardSize'.cols)
    /\ cellMap' = drawGrid(grid', boardSize'.rows, boardSize'.cols)
    /\ reel' = ReelIdle
    /\ timers' = MarkStale(removeAllEvents(timers))
    /\ log' = <<>>
    /\ prev' = [phase |-> PhaseNow, same |-> FALSE]

clearBoard ==
    /\ currentPlay' = <<>>
    /\ accumulatedWin' = 0
    /\ boardSize' = [rows |-> Max(1, pickBoardSize(<<>>, previewMode', previewSize').rows),
                     cols |-> Max(1, pickBoardSize(<<>>, previewMode', previewSize').cols)]
    /\ grid' = normalizeGrid(<<>>, boardSize'.rows, boardSize'.cols)
    /\ cellMap' = drawGrid(grid', boardSize'.rows, boardSize'.cols)
    /\ reel' = ReelIdle
    /\ timers' = MarkStale(removeAllEvents(timers))
    /\ log' = <<>>
    /\ prev' = [phase |-> PhaseNow, same |-> FALSE]

\* the effect on [fillMode, mode, play, previewSize]: the refs are updated, the
\* metrics recomputed and sent, then render-play or clear-play is sent
PropsEffect(playOpt, fm, cfg) ==
    /\ fillMode' = fm
    /\ previewMode' = cfg.mode
    /\ previewSize' = cfg.size
    /\ container' = container
    /\ metrics' = measuredMetrics(playOpt, container, cfg.mode, cfg.size)
    /\ IF playOpt # <<>>
       THEN \E start \in (IF fm = "rodillo" THEN StartIndices ELSE {0}) :
               renderPlay(playOpt[1], start)
       ELSE clearBoard
    /\ UNCHANGED side

\* the play prop is set to an outcome
Submit(p) ==
    PropsEffect(<<p>>, fillMode, [mode |-> previewMode, size |-> previewSize])

\* the play prop is unset
Clear ==
    /\ currentPlay # <<>>
    /\ PropsEffect(<<>>, fillMode, [mode |-> previewMode, size |-> previewSize])

\* mutant: the new value reaches fillModeRef without the props effect
SetFillModeKeepsRun(fm) ==
    /\ fm # fillMode
    /\ fillMode' = fm
    /\ UNCHANGED <<previewMode, previewSize, container, metrics, boardSize, grid, cellMap,
                   currentPlay, accumulatedWin, reel, timers, log, prev>>
    /\ UNCHANGED side

\* the fillMode prop changes: the fillModeRef effect, then the props effect
SetFillMode(fm) ==
    /\ fm # fillMode
    /\ PropsEffect(currentPlay, fm, [mode |-> previewMode, size |-> previewSize])

SetPreview(cfg) ==
    /\ cfg # [mode |-> previewMode, size |-> previewSize]
    /\ PropsEffect(currentPlay, fillMode, cfg)

\* mutant: the metrics change starts the run over
ResizeRestartsRun(box) ==
    /\ box # container
    /\ container' = box
    /\ metrics' = measuredMetrics(currentPlay, box, previewMode, previewSize)
    /\ boardSize' = [rows |-> Max(1, boardSize.rows), cols |-> Max(1, boardSize.cols)]
    /\ grid' = normalizeGrid(grid, boardSize'.rows, boardSize'.cols)
    /\ cellMap' = drawGrid(grid, boardSize'.rows, boardSize'.cols)
    /\ reel' = IF reel.active THEN [reel EXCEPT !.live = FALSE] ELSE reel
    /\ timers' = IF currentPlay = <<>> THEN timers
                  ELSE <<Timer(320, "runStep", 0, currentPlay, FALSE)>>
    /\ UNCHANGED <<fillMode, previewMode, previewSize, currentPlay, accumulatedWin,
                   log, prev>>
    /\ UNCHANGED side

\* window resize: resizeMetrics, then the scene's metrics-changed handler
\* (this.metrics = metrics; drawGrid(this.grid))
Resize(box) ==
    /\ box # container
    /\ container' = box
    /\ metrics' = measuredMetrics(currentPlay, box, previewMode, previewSize)
    /\ boardSize' = [rows |-> Max(1, boardSize.rows), cols |-> Max(1, boardSize.cols)]
    /\ grid' = normalizeGrid(grid, boardSize'.rows, boardSize'.cols)
    /\ cellMap' = drawGrid(grid, boardSize'.rows, boardSize'.cols)
    /\ reel' = IF reel.active THEN [reel EXCEPT !.live = FALSE] ELSE reel
    /\ UNCHANGED <<fillMode, previewMode, previewSize, currentPlay, accumulatedWin,
                   timers, log, prev>>
    /\ UNCHANGED side

\* the scene after create() with no initial play: clearBoard has run
SceneInit ==
    /\ fillMode \in FillModes
    /\ \E cfg \in PreviewConfigs :
          /\ previewMode = cfg.mode
          /\ previewSize = cfg.size
    /\ container \in ContainerSizes
    /\ metrics = measuredMetrics(<<>>, container, previewMode, previewSize)
    /\ currentPlay = <<>>
    /\ accumulatedWin = 0
    /\ boardSize = [rows |-> Max(1, pickBoardSize(<<>>, previewMode, previewSize).rows),
                    cols |-> Max(1, pickBoardSize(<<>>, previewMode, previewSize).cols)]
    /\ grid = normalizeGrid(<<>>, boardSize.rows, boardSize.cols)
    /\ cellMap = drawGrid(grid, boardSize.rows, boardSize.cols)
    /\ reel = ReelIdle
    /\ timers = <<>>
    /\ log = <<>>
    /\ prev = NoPrev

\* nothing highlighted or formatted yet, createStateMachine() and
\* createEventBus() just called
\* createStateMachine(): current = "MENU", ctx = {}
MachineInit ==
    /\ current = "MENU"
    /\ ctx = <<>>
    /\ machineCalls = [initial |-> "MENU", calls |-> <<>>]

\* createEventBus(): handlers = new Map()
BusInit ==
    /\ handlers = <<>>
    /\ unsubscribes = {}
    /\ delivered = <<>>
    /\ busCalls = <<>>

SideInit ==
    /\ refill = <<>>
    /\ page = <<>>
    /\ client = <<>>
    /\ effects = <<>>
    /\ measured = <<>>
    /\ highlight = <<>>
    /\ money = <<>>
    /\ MachineInit
    /\ BusInit

Init == SceneInit /\ SideInit

\* one initial scene, for the specifications of the modules beside the scene
SceneAtRest ==
    /\ SceneInit
    /\ fillMode = "unset"
    /\ previewMode = "unset"
    /\ previewSize = <<>>
    /\ container = [w |-> 800, h |-> 600]

----------------------------------------------------------------------------
(* The clock: the pending callback that is due first fires next; callbacks  *)
(* due at the same time fire in insertion order.                           *)

NextIdx(ts) ==
    CHOOSE i \in 1..Len(ts) :
        /\ \A j \in 1..Len(ts) : ts[i].delay <= ts[j].delay
        /\ \A j \in 1..(i - 1) : ts[j].delay > ts[i].delay

Elapse(ts, d) == [i \in 1..Len(ts) |-> [ts[i] EXCEPT !.delay = @ - d]]

RemoveAt(ts, i) == SubSeq(ts, 1, i - 1) \o SubSeq(ts, i + 1, Len(ts))

\* the due callback has run once and scheduled the calls in added
AfterFire(ts, added) ==
    RemoveAt(Elapse(ts, ts[NextIdx(ts)].delay), NextIdx(ts)) \o added

Due(kind) == timers # <<>> /\ timers[NextIdx(timers)].kind = kind

DueTimer == timers[NextIdx(timers)]

Take(q, n) == SubSeq(q, 1, Min(n, Len(q)))

----------------------------------------------------------------------------
(* playBonusTriggerHighlight: the cells to highlight *)

\* mutant: a listed cell is kept whatever symbol it holds
RECURSIVE explicitTargetsAnySymbol(_, _, _, _)
explicitTargetsAnySymbol(cells, g, size, acc) ==
    IF cells = <<>> THEN acc
    ELSE LET cell == cells[1]
             skip == \/ cell.row < 0 \/ cell.col < 0
                     \/ cell.row >= size.rows \/ cell.col >= size.cols
                     \/ InSeq(cell, acc)
         IN  explicitTargetsAnySymbol(Tail(cells), g, size,
                                      IF skip THEN acc ELSE Append(acc, cell))

RECURSIVE explicitTargets(_, _, _, _)
explicitTargets(cells, g, size, acc) ==
    IF cells = <<>> THEN acc
    ELSE LET cell == cells[1]
             skip == \/ cell.row < 0 \/ cell.col < 0
                     \/ cell.row >= size.rows \/ cell.col >= size.cols
                     \/ CellAt(g, cell.row, cell.col) # BONUS_TRIGGER_SYMBOL
                     \/ InSeq(cell, acc)
         IN  explicitTargets(Tail(cells), g, size, IF skip THEN acc ELSE Append(acc, cell))

\* mutant: the scan runs column by column
RECURSIVE fallbackTargetsColumnMajor(_, _, _)
fallbackTargetsColumnMajor(g, size, n) ==
    IF n >= size.rows * size.cols THEN <<>>
    ELSE LET row == n % size.rows
             col == n \div size.rows
             rest == fallbackTargetsColumnMajor(g, size, n + 1)
         IN  IF CellAt(g, row, col) = BONUS_TRIGGER_SYMBOL
             THEN <<Cell(row, col)>> \o rest
             ELSE rest

\* row-major scan for the trigger symbol, from flat index n
RECURSIVE fallbackTargets(_, _, _)
fallbackTargets(g, size, n) ==
    IF n >= size.rows * size.cols THEN <<>>
    ELSE LET row == n \div size.cols
             col == n % size.cols
             rest == fallbackTargets(g, size, n + 1)
         IN  IF CellAt(g, row, col) = BONUS_TRIGGER_SYMBOL
             THEN <<Cell(row, col)>> \o rest
             ELSE rest

highlightTargets(triggerCount, triggerCells, g, size) ==
    LET requestedCount ==
            Max(1, Min(BONUS_HIGHLIGHT_LIMIT,
                       IF triggerCount = 0 THEN BONUS_HIGHLIGHT_LIMIT ELSE triggerCount))
        explicit == Take(explicitTargets(IF triggerCells = <<>> THEN <<>> ELSE triggerCells[1],
                                         g, size, <<>>),
                         requestedCount)
    IN  IF Len(explicit) = 0
        THEN Take(fallbackTargets(g, size, 0), requestedCount)
        ELSE explicit

\* animateStep's triggerCount: bonusData?.triggerCount ?? limit, clamped to 1..limit
stepTriggerCount(step) ==
    Max(1, Min(BONUS_HIGHLIGHT_LIMIT,
               IF step.bonusData = <<>> THEN BONUS_HIGHLIGHT_LIMIT
               ELSE step.bonusData[1].triggerCount))

stepTriggerCells(step) ==
    IF step.bonusData = <<>> THEN <<>> ELSE step.bonusData[1].triggerCells

----------------------------------------------------------------------------
(* animateStep *)

removeSetOf(step) ==
    {<<step.removeCells[i].row, step.removeCells[i].col>> : i \in 1..Len(step.removeCells)}

\* playMatchContour's return value: every non-empty cell list has a border segment
contourDelayOf(step) == IF Len(step.removeCells) = 0 THEN 0 ELSE MATCH_CONTOUR_DURATION

\* mutant: the step's win replaces the accumulated win instead of being added
startRemovalAssigns(step, idx, playOpt, stale, lg, win) ==
    LET stepWin == step.winStep
        counts == HasPlayId(currentPlay) /\ stepWin > 0
    IN  [log |-> IF counts
                 THEN Append(lg, Emitted([type |-> "game:win:increment",
                                          playId |-> PlayOf(currentPlay[1]).playId,
                                          amount |-> stepWin], stale))
                 ELSE lg,
         win |-> IF counts THEN stepWin ELSE win,
         added |-> <<Timer(520 + 160, "apply", idx, playOpt, stale)>>]

\* mutant: the notification carries the running total instead of the step's win
startRemovalEmitsTotal(step, idx, playOpt, stale, lg, win) ==
    LET stepWin == step.winStep
        counts == HasPlayId(currentPlay) /\ stepWin > 0
    IN  [log |-> IF counts
                 THEN Append(lg, Emitted([type |-> "game:win:increment",
                                          playId |-> PlayOf(currentPlay[1]).playId,
                                          amount |-> win + stepWin], stale))
                 ELSE lg,
         win |-> IF counts THEN win + stepWin ELSE win,
         added |-> <<Timer(520 + 160, "apply", idx, playOpt, stale)>>]

\* mutant: a step without win is notified too
startRemovalNotifiesZero(step, idx, playOpt, stale, lg, win) ==
    LET stepWin == step.winStep
        counts == HasPlayId(currentPlay) /\ stepWin >= 0
    IN  [log |-> IF counts
                 THEN Append(lg, Emitted([type |-> "game:win:increment",
                                          playId |-> PlayOf(currentPlay[1]).playId,
                                          amount |-> stepWin], stale))
                 ELSE lg,
         win |-> IF counts THEN win + stepWin ELSE win,
         added |-> <<Timer(520 + 160, "apply", idx, playOpt, stale)>>]

\* startRemoval: the win is added and notified when removal starts, then the
\* mutation is scheduled after removalDuration + 160
startRemoval(step, idx, playOpt, stale, lg, win) ==
    LET stepWin == step.winStep
        counts == HasPlayId(currentPlay) /\ stepWin > 0
    IN  [log |-> IF counts
                 THEN Append(lg, Emitted([type |-> "game:win:increment",
                                          playId |-> PlayOf(currentPlay[1]).playId,
                                          amount |-> stepWin], stale))
                 ELSE lg,
         win |-> IF counts THEN win + stepWin ELSE win,
         added |-> <<Timer(520 + 160, "apply", idx, playOpt, stale)>>]

bonusTriggered(step, stale, lg) ==
    IF HasPlayId(currentPlay)
    THEN Append(lg, Emitted([type |-> "game:bonus:triggered",
                             playId |-> PlayOf(currentPlay[1]).playId,
                             bonusData |-> step.bonusData], stale))
    ELSE lg

\* mutant: the notification carries the zero-based loop index
emittedStepIndexZeroBased(stepIndex) == stepIndex

\* the index carried by game:cascade:step
emittedStepIndex(stepIndex) == stepIndex + 1

\* mutant: the highlight lasts the same time however many cells it lights
totalDurationFixed(n) == 1280

\* playBonusTriggerHighlight: the delay of onComplete when n >= 1 cells are
\* highlighted, each starting 120 ms after the one before
totalDuration(n) == 1280 + Max(0, n - 1) * 120

\* mutant: a bonus step is removed and refilled like a match step
animateStepWithoutBonusBranch(step, idx, totalSteps, playOpt, stale) ==
    LET lg1 == IF HasPlayId(currentPlay)
               THEN Append(log, Emitted([type |-> "game:cascade:step",
                                         playId |-> PlayOf(currentPlay[1]).playId,
                                         stepIndex |-> emittedStepIndex(idx),
                                         totalSteps |-> totalSteps], stale))
               ELSE log
    IN  IF contourDelayOf(step) > 0
        THEN [log |-> lg1,
              win |-> accumulatedWin,
              added |-> <<Timer(contourDelayOf(step), "startRemoval", idx, playOpt, stale)>>]
        ELSE startRemoval(step, idx, playOpt, stale, lg1, accumulatedWin)

\* animateStep up to its first delayed call
animateStep(step, idx, totalSteps, playOpt, stale) ==
    LET lg1 == IF HasPlayId(currentPlay)
               THEN Append(log, Emitted([type |-> "game:cascade:step",
                                         playId |-> PlayOf(currentPlay[1]).playId,
                                         stepIndex |-> emittedStepIndex(idx),
                                         totalSteps |-> totalSteps], stale))
               ELSE log
        targets == highlightTargets(stepTriggerCount(step), stepTriggerCells(step),
                                    grid, boardSize)
    IN  IF step.bonus
        THEN IF Len(targets) = 0
             THEN [log |-> bonusTriggered(step, stale, lg1),
                   win |-> accumulatedWin,
                   added |-> <<Timer(250, "runStep", idx + 1, playOpt, stale)>>]
             ELSE [log |-> lg1,
                   win |-> accumulatedWin,
                   added |-> <<Timer(totalDuration(Len(targets)), "bonusDone",
                                     idx, playOpt, stale)>>]
        ELSE IF contourDelayOf(step) > 0
        THEN [log |-> lg1,
              win |-> accumulatedWin,
              added |-> <<Timer(contourDelayOf(step), "startRemoval", idx, playOpt, stale)>>]
        ELSE startRemoval(step, idx, playOpt, stale, lg1, accumulatedWin)

\* runStep(idx), called from a delayed call
FireRunStep ==
    /\ Due("runStep")
    /\ LET t == DueTimer
           play == PlayOf(t.play[1])
       IN  IF t.idx >= Len(play.cascades)
           THEN /\ log' = Append(log, Emitted([type |-> "game:cascade:completed",
                                               playId |-> play.playId,
                                               totalSteps |-> Len(play.cascades)], t.stale))
                /\ timers' = AfterFire(timers, <<>>)
                /\ UNCHANGED accumulatedWin
           ELSE LET r == animateStep(play.cascades[t.idx + 1], t.idx, Len(play.cascades),
                                     t.play, t.stale)
                IN  /\ log' = r.log
                    /\ accumulatedWin' = r.win
                    /\ timers' = AfterFire(timers, r.added)
    /\ prev' = NoPrev
    /\ UNCHANGED <<fillMode, previewMode, previewSize, container, metrics, boardSize, grid,
                   cellMap, currentPlay, reel>>
    /\ UNCHANGED side

\* startRemoval, called after the contour delay
FireStartRemoval ==
    /\ Due("startRemoval")
    /\ LET t == DueTimer
           r == startRemoval(PlayOf(t.play[1]).cascades[t.idx + 1], t.idx, t.play, t.stale,
                             log, accumulatedWin)
       IN  /\ log' = r.log
           /\ accumulatedWin' = r.win
           /\ timers' = AfterFire(timers, r.added)
    /\ prev' = NoPrev
    /\ UNCHANGED <<fillMode, previewMode, previewSize, container, metrics, boardSize, grid,
                   cellMap, currentPlay, reel>>
    /\ UNCHANGED side

----------------------------------------------------------------------------
(* Refill *)

\* mutant: every coordinate gets a new handle
replaceRefillRedraws(cm, g, removed, rows, cols) ==
    [k \in Coords(rows, cols) |-> g[k[1] + 1][k[2] + 1]]

\* replace: kept handles stay, every other board coordinate gets a new handle
\* with the new grid's symbol
replaceRefill(cm, g, removed, rows, cols) ==
    [k \in Coords(rows, cols) |->
        IF k \notin removed /\ k \in DOMAIN cm THEN cm[k] ELSE g[k[1] + 1][k[2] + 1]]

\* handles of a column that are not removed, bottom row first
RECURSIVE survivorsOf(_, _, _, _)
survivorsOf(cm, removed, col, row) ==
    IF row < 0 THEN <<>>
    ELSE (IF <<row, col>> \notin removed /\ <<row, col>> \in DOMAIN cm
          THEN <<cm[<<row, col>>]>> ELSE <<>>)
         \o survivorsOf(cm, removed, col, row - 1)

\* step.dropIn.find((d) => d.col === col)?.symbols ?? []
RECURSIVE dropSymbolsOf(_, _)
dropSymbolsOf(dropIn, col) ==
    IF dropIn = <<>> THEN <<>>
    ELSE IF dropIn[1].col = col THEN dropIn[1].symbols
    ELSE dropSymbolsOf(Tail(dropIn), col)

\* a column after gravity: survivors from the bottom row upwards, then the
\* dropped symbols, last one first
columnAfter(cm, step, removed, rows, col) ==
    LET survivors == survivorsOf(cm, removed, col, rows - 1)
        dropSymbols == dropSymbolsOf(step.dropIn, col)
    IN  survivors \o [i \in 1..Len(dropSymbols) |-> dropSymbols[Len(dropSymbols) + 1 - i]]

gravityRefill(cm, step, removed, rows, cols) ==
    LET keys == UNION {{<<rows - j, col>> : j \in 1..Len(columnAfter(cm, step, removed, rows, col))}
                       : col \in 0..(cols - 1)}
    IN  [k \in keys |-> columnAfter(cm, step, removed, rows, k[2])[rows - k[1]]]

\* replace: the handles of the old map that the new map does not hold under
\* the same key are destroyed
replaceDestroyed(cm, newMap) ==
    {cm[k] : k \in {c \in DOMAIN cm : c \notin DOMAIN newMap \/ newMap[c] # cm[c]}}

\* gravity: the handles under removed keys are destroyed
gravityDestroyed(cm, removed) == {cm[k] : k \in DOMAIN cm \cap removed}

\* mutant: the next step is scheduled at once, besides the end of the refill
FireApplyChainsTwice ==
    /\ Due("apply")
    /\ LET t == DueTimer
           step == PlayOf(t.play[1]).cascades[t.idx + 1]
           rows == boardSize.rows
           cols == boardSize.cols
           useReplaceAnimation == fillMode = "replace"
       IN  /\ grid' = normalizeGrid(IF step.gridAfter = <<>> THEN grid ELSE step.gridAfter[1],
                                    rows, cols)
           /\ cellMap' = IF useReplaceAnimation
                         THEN replaceRefill(cellMap, grid', removeSetOf(step), rows, cols)
                         ELSE gravityRefill(cellMap, step, removeSetOf(step), rows, cols)
           /\ timers' = AfterFire(timers,
                           <<Timer(IF useReplaceAnimation THEN 280 + 120 ELSE 480 + 120,
                                   "stepDone", t.idx, t.play, t.stale),
                             Timer(250, "runStep", t.idx + 1, t.play, t.stale)>>)
    /\ prev' = NoPrev
    /\ UNCHANGED <<fillMode, previewMode, previewSize, container, metrics, boardSize,
                   currentPlay, accumulatedWin, reel, log>>
    /\ UNCHANGED side

\* the delayed call of startRemoval: the grid becomes gridAfter, the handles are refilled
FireApply ==
    /\ Due("apply")
    /\ LET t == DueTimer
           step == PlayOf(t.play[1]).cascades[t.idx + 1]
           rows == boardSize.rows
           cols == boardSize.cols
           useReplaceAnimation == fillMode = "replace"
       IN  /\ grid' = normalizeGrid(IF step.gridAfter = <<>> THEN grid ELSE step.gridAfter[1],
                                    rows, cols)
           /\ cellMap' = IF useReplaceAnimation
                         THEN replaceRefill(cellMap, grid', removeSetOf(step), rows, cols)
                         ELSE gravityRefill(cellMap, step, removeSetOf(step), rows, cols)
           /\ timers' = AfterFire(timers,
                           <<Timer(IF useReplaceAnimation THEN 280 + 120 ELSE 480 + 120,
                                   "stepDone", t.idx, t.play, t.stale)>>)
    /\ prev' = NoPrev
    /\ UNCHANGED <<fillMode, previewMode, previewSize, container, metrics, boardSize,
                   currentPlay, accumulatedWin, reel, log>>
    /\ UNCHANGED side

\* mutant: the step after the next one is scheduled
FireStepDoneSkips ==
    /\ Due("stepDone")
    /\ timers' = AfterFire(timers,
                    <<Timer(250, "runStep", DueTimer.idx + 2, DueTimer.play, DueTimer.stale)>>)
    /\ prev' = NoPrev
    /\ UNCHANGED <<fillMode, previewMode, previewSize, container, metrics, boardSize, grid,
                   cellMap, currentPlay, accumulatedWin, reel, log>>
    /\ UNCHANGED side

\* onComplete of a match step: the next step after the 250 ms pause
FireStepDone ==
    /\ Due("stepDone")
    /\ timers' = AfterFire(timers,
                    <<Timer(250, "runStep", DueTimer.idx + 1, DueTimer.play, DueTimer.stale)>>)
    /\ prev' = NoPrev
    /\ UNCHANGED <<fillMode, previewMode, previewSize, container, metrics, boardSize, grid,
                   cellMap, currentPlay, accumulatedWin, reel, log>>
    /\ UNCHANGED side

\* mutant: the step after a bonus step is scheduled without the pause
FireBonusDoneAtOnce ==
    /\ Due("bonusDone")
    /\ LET t == DueTimer
       IN  /\ log' = bonusTriggered(PlayOf(t.play[1]).cascades[t.idx + 1], t.stale, log)
           /\ timers' = AfterFire(timers,
                           <<Timer(0, "runStep", t.idx + 1, t.play, t.stale)>>)
    /\ prev' = NoPrev
    /\ UNCHANGED <<fillMode, previewMode, previewSize, container, metrics, boardSize, grid,
                   cellMap, currentPlay, accumulatedWin, reel>>
    /\ UNCHANGED side

\* end of the bonus highlight: bonus notification, then onComplete
FireBonusDone ==
    /\ Due("bonusDone")
    /\ LET t == DueTimer
       IN  /\ log' = bonusTriggered(PlayOf(t.play[1]).cascades[t.idx + 1], t.stale, log)
           /\ timers' = AfterFire(timers,
                           <<Timer(250, "runStep", t.idx + 1, t.play, t.stale)>>)
    /\ prev' = NoPrev
    /\ UNCHANGED <<fillMode, previewMode, previewSize, container, metrics, boardSize, grid,
                   cellMap, currentPlay, accumulatedWin, reel>>
    /\ UNCHANGED side

----------------------------------------------------------------------------
(* Rodillo intro callbacks.  A callback left over from a previous intro    *)
(* works on that intro's own columnStates and handles, which the scene no  *)
(* longer holds.                                                           *)

OwnReel(t) == reel.active /\ ~t.stale

\* delayedCall(col * colStartDelay, () => dropColumn(col)): the column's drop tweens start
FireDropCol ==
    /\ Due("dropCol")
    /\ timers' = AfterFire(timers,
                    <<Timer(280, "colDropped", DueTimer.idx, DueTimer.play, DueTimer.stale)>>)
    /\ prev' = NoPrev
    /\ UNCHANGED <<fillMode, previewMode, previewSize, container, metrics, boardSize, grid,
                   cellMap, currentPlay, accumulatedWin, reel, log>>
    /\ UNCHANGED side

\* onComplete of the last drop tween of a column
FireColDropped ==
    /\ Due("colDropped")
    /\ reel' = IF OwnReel(DueTimer)
               THEN [reel EXCEPT !.spinning[DueTimer.idx + 1] = TRUE]
               ELSE reel
    /\ timers' = AfterFire(timers, <<>>)
    /\ prev' = NoPrev
    /\ UNCHANGED <<fillMode, previewMode, previewSize, container, metrics, boardSize, grid,
                   cellMap, currentPlay, accumulatedWin, log>>
    /\ UNCHANGED side

\* mutant: one turn of the strip is enough
requiredLastColumnStepsOneTurn(rows) == rows

\* rows * minTurnsLastColumn
requiredLastColumnSteps(rows) == rows * 2

\* one tick of spinTimer
FireSpin ==
    /\ Due("spin")
    /\ LET t == DueTimer
           own == OwnReel(t)
           counted == reel.spinning[reel.cols] /\ ~reel.stopScheduled
           stopNow == counted /\ reel.steps + 1 >= requiredLastColumnSteps(reel.rows)
       IN  /\ reel' = IF own
                      THEN [reel EXCEPT
                              !.cursor = [c \in 1..reel.cols |->
                                            IF reel.spinning[c]
                                            THEN (reel.cursor[c] + 1) % Len(reel.pool)
                                            ELSE reel.cursor[c]],
                              !.steps = IF counted THEN @ + 1 ELSE @,
                              !.stopScheduled = @ \/ stopNow]
                      ELSE reel
           /\ cellMap' = IF own /\ reel.live
                         THEN [k \in DOMAIN cellMap |->
                                 IF k[2] < reel.cols /\ reel.spinning[k[2] + 1]
                                 THEN stripSymbol(reel.pool, reel'.cursor[k[2] + 1], k[1])
                                 ELSE cellMap[k]]
                         ELSE cellMap
           /\ timers' = [Elapse(timers, t.delay) EXCEPT ![NextIdx(timers)].delay = 90]
                           \o (IF own /\ stopNow
                               THEN [c \in 1..reel.cols |->
                                       Timer((c - 1) * 220, "stopCol", c - 1, t.play, t.stale)]
                               ELSE <<>>)
    /\ prev' = NoPrev
    /\ UNCHANGED <<fillMode, previewMode, previewSize, container, metrics, boardSize, grid,
                   currentPlay, accumulatedWin, log>>
    /\ UNCHANGED side

\* the stop call of a column: it shows the grid's symbols and settles
FireStopCol ==
    /\ Due("stopCol")
    /\ LET t == DueTimer
           own == OwnReel(t)
       IN  /\ reel' = IF own THEN [reel EXCEPT !.spinning[t.idx + 1] = FALSE] ELSE reel
           /\ cellMap' = IF own /\ reel.live
                         THEN [k \in DOMAIN cellMap |->
                                 IF k[2] = t.idx
                                 THEN safeSymbol(CellAt(grid, k[1], k[2]))
                                 ELSE cellMap[k]]
                         ELSE cellMap
           /\ timers' = AfterFire(timers,
                           IF own /\ t.idx = reel.cols - 1
                           THEN <<Timer(260 + 40, "spinRemove", 0, t.play, t.stale)>>
                           ELSE <<>>)
    /\ prev' = NoPrev
    /\ UNCHANGED <<fillMode, previewMode, previewSize, container, metrics, boardSize, grid,
                   currentPlay, accumulatedWin, log>>
    /\ UNCHANGED side

\* spinTimer.remove(false)
FireSpinRemove ==
    /\ Due("spinRemove")
    /\ LET t == DueTimer
           rest == AfterFire(timers, <<>>)
           keep == {i \in 1..Len(rest) : ~(rest[i].kind = "spin" /\ rest[i].stale = t.stale)}
           RECURSIVE Kept(_)
           Kept(n) == IF n > Len(rest) THEN <<>>
                      ELSE (IF n \in keep THEN <<rest[n]>> ELSE <<>>) \o Kept(n + 1)
       IN  /\ timers' = Kept(1)
           /\ reel' = IF OwnReel(t) THEN ReelIdle ELSE reel
    /\ prev' = NoPrev
    /\ UNCHANGED <<fillMode, previewMode, previewSize, container, metrics, boardSize, grid,
                   cellMap, currentPlay, accumulatedWin, log>>
    /\ UNCHANGED side

----------------------------------------------------------------------------

Next ==
    \/ \E p \in Plays : Submit(p)
    \/ Clear
    \/ \E fm \in FillModes : SetFillMode(fm)
    \/ \E cfg \in PreviewConfigs : SetPreview(cfg)
    \/ \E box \in ContainerSizes : Resize(box)
    \/ FireRunStep
    \/ FireStartRemoval
    \/ FireApply
    \/ FireStepDone
    \/ FireBonusDone
    \/ FireDropCol
    \/ FireColDropped
    \/ FireSpin
    \/ FireStopCol
    \/ FireSpinRemove

Spec == Init /\ [][Next]_vars

\* the clock advances with every frame: a due callback is eventually run
Fire ==
    \/ FireRunStep \/ FireStartRemoval \/ FireApply \/ FireStepDone \/ FireBonusDone
    \/ FireDropCol \/ FireColDropped \/ FireSpin \/ FireStopCol \/ FireSpinRemove

\* the runs of the outcomes of OddPlays, with the clock's fairness
FairNext ==
    \/ \E p \in OddPlays : Submit(p)
    \/ Clear
    \/ \E box \in ContainerSizes : Resize(box)
    \/ FireRunStep
    \/ FireStartRemoval
    \/ FireApply
    \/ FireStepDone
    \/ FireBonusDone
    \/ FireDropCol
    \/ FireColDropped
    \/ FireSpin
    \/ FireStopCol
    \/ FireSpinRemove

FairSpec == Init /\ [][FairNext]_vars /\ WF_vars(Fire)

----------------------------------------------------------------------------
(* Derived notions used by the properties *)

Cur == PlayOf(currentPlay[1])

Events(lg) == [i \in 1..Len(lg) |-> lg[i].ev]

RECURSIVE OfType(_, _)
OfType(evs, type) ==
    IF evs = <<>> THEN <<>>
    ELSE (IF evs[1].type = type THEN <<evs[1]>> ELSE <<>>) \o OfType(Tail(evs), type)

RECURSIVE SumAmounts(_)
SumAmounts(evs) == IF evs = <<>> THEN 0 ELSE evs[1].amount + SumAmounts(Tail(evs))

\* a play is current and its sequencer has no callback pending
RunOver == currentPlay # <<>> /\ ChainIdxs(timers) = {}

ChainTimer == timers[CHOOSE i \in ChainIdxs(timers) : TRUE]

\* number of steps whose mutation phase is over (bonus steps: whose turn is over)
StepsApplied ==
    IF ChainIdxs(timers) = {} THEN Len(Cur.cascades)
    ELSE IF ChainTimer.kind = "stepDone" THEN ChainTimer.idx + 1
    ELSE ChainTimer.idx

\* number of steps that have started
StepsStarted ==
    IF ChainIdxs(timers) = {} THEN Len(Cur.cascades)
    ELSE IF ChainTimer.kind = "runStep" THEN ChainTimer.idx
    ELSE ChainTimer.idx + 1

\* index of the last match step among the first n steps, 0 if there is none
RECURSIVE LastMatch(_, _)
LastMatch(cs, n) ==
    IF n = 0 THEN 0 ELSE IF ~cs[n].bonus THEN n ELSE LastMatch(cs, n - 1)

IsShape(g, rows, cols) == Len(g) = rows /\ \A r \in 1..rows : Len(g[r]) = cols

\* an outcome as the data model describes it: a playId, a rectangular non-empty
\* grid0, and for every match step removeCells inside the board and a fully
\* populated gridAfter of the board's shape
ValidPlay(play) ==
    /\ play.playId # ""
    /\ Len(play.grid0) > 0
    /\ Len(play.grid0[1]) > 0
    /\ IsShape(play.grid0, Len(play.grid0), Len(play.grid0[1]))
    /\ \A i \in 1..Len(play.cascades) :
          LET step == play.cascades[i]
          IN  step.bonus \/
              /\ Len(step.removeCells) > 0
              /\ \A j \in 1..Len(step.removeCells) :
                    /\ step.removeCells[j].row \in 0..(Len(play.grid0) - 1)
                    /\ step.removeCells[j].col \in 0..(Len(play.grid0[1]) - 1)
              /\ step.winStep >= 0
              /\ step.gridAfter # <<>>
              /\ IsShape(step.gridAfter[1], Len(play.grid0), Len(play.grid0[1]))

----------------------------------------------------------------------------
(* Properties *)

StepEvents == OfType(Events(log), "game:cascade:step")
WinEvents == OfType(Events(log), "game:win:increment")
CompletedEvents == OfType(Events(log), "game:cascade:completed")

\* C1: a run of a valid outcome emits exactly one game:cascade:step per step
\* that has started, in step order, and, once all steps are over, exactly one
\* game:cascade:completed with totalSteps = cascades.length, which is the last
\* notification of the run.
C1_StepsThenCompleted ==
    (currentPlay # <<>> /\ ValidPlay(Cur)) =>
        /\ Len(StepEvents) = StepsStarted
        /\ \A i \in 1..Len(StepEvents) :
              /\ StepEvents[i].stepIndex = StepEvents[1].stepIndex + (i - 1)
              /\ StepEvents[i].totalSteps = Len(Cur.cascades)
        /\ Len(CompletedEvents) = (IF RunOver THEN 1 ELSE 0)
        /\ RunOver =>
              /\ Len(StepEvents) = Len(Cur.cascades)
              /\ CompletedEvents[1].totalSteps = Len(Cur.cascades)
              /\ Events(log)[Len(log)] = CompletedEvents[1]

C1_Witness ==
    /\ RunOver
    /\ ValidPlay(Cur)
    /\ Len(Cur.cascades) = MaxSteps
    /\ Len(StepEvents) = MaxSteps
    /\ Len(CompletedEvents) = 1

\* C2: after renderPlay is called during an active run no callback of the
\* previous run emits a notification, and right after the call the grid is
\* the new outcome's grid0 normalised to the board shape.
C2_CancellationSafety ==
    /\ \A i \in 1..Len(log) : ~log[i].stale
    /\ (prev.phase # "none" /\ currentPlay # <<>>) =>
          /\ log = <<>>
          /\ boardSize = [rows |-> Max(1, pickBoardSize(currentPlay, previewMode, previewSize).rows),
                          cols |-> Max(1, pickBoardSize(currentPlay, previewMode, previewSize).cols)]
          /\ grid = normalizeGrid(Cur.grid0, boardSize.rows, boardSize.cols)

C2_Witness ==
    /\ currentPlay # <<>>
    /\ prev.phase = "removal"
    /\ grid = Grid0A

\* C3: after clearBoard no play is current, the accumulated win is 0, the grid
\* is the empty board of the configured preview shape, no run is started and
\* nothing is emitted until the next renderPlay.
C3_ClearBoard ==
    currentPlay = <<>> =>
        /\ accumulatedWin = 0
        /\ boardSize = [rows |-> Max(1, pickBoardSize(<<>>, previewMode, previewSize).rows),
                        cols |-> Max(1, pickBoardSize(<<>>, previewMode, previewSize).cols)]
        /\ IsShape(grid, boardSize.rows, boardSize.cols)
        /\ \A r \in 1..boardSize.rows : \A c \in 1..boardSize.cols : grid[r][c] = ""
        /\ timers = <<>>
        /\ log = <<>>

C3_Witness ==
    /\ currentPlay = <<>>
    /\ prev.phase = "refill"
    /\ boardSize = LEVEL_ONE_PREVIEW_SIZE

\* C4: the accumulated win always equals the sum of the game:win:increment
\* amounts emitted in the run, and when the run of a valid outcome is over it
\* equals the sum of winStep over the outcome's match steps.
C4_AccumulatedWin ==
    /\ accumulatedWin = SumAmounts(WinEvents)
    /\ (RunOver /\ ValidPlay(Cur)) => accumulatedWin = SumWins(Cur.cascades)

C4_Witness ==
    /\ RunOver
    /\ ValidPlay(Cur)
    /\ Len(WinEvents) = 2
    /\ accumulatedWin = 35

\* C5: in a run of a valid outcome, once the mutation of a match step is over
\* the grid equals that step's gridAfter, in every fill mode, until the next
\* match step's mutation; after the last step it is the last match step's
\* gridAfter.
C5_GridEqualsGridAfter ==
    (currentPlay # <<>> /\ ValidPlay(Cur)) =>
        LET m == LastMatch(Cur.cascades, StepsApplied)
        IN  m > 0 => grid = Cur.cascades[m].gridAfter[1]

C5_Witness ==
    /\ RunOver
    /\ ValidPlay(Cur)
    /\ fillMode = "rodillo"
    /\ LastMatch(Cur.cascades, StepsApplied) = 2
    /\ grid = StepM2.gridAfter[1]

\* C6: the keys of the cell-handle map are exactly the coordinates of the
\* current board.
C6_HandleKeysExact ==
    DOMAIN cellMap = Coords(boardSize.rows, boardSize.cols)

\* the notifications of a complete run, as a function of the outcome alone
RECURSIVE ExpectedFrom(_, _)
ExpectedFrom(play, i) ==
    IF i > Len(play.cascades)
    THEN <<[type |-> "game:cascade:completed", playId |-> play.playId,
            totalSteps |-> Len(play.cascades)]>>
    ELSE LET step == play.cascades[i]
             started == [type |-> "game:cascade:step", playId |-> play.playId,
                         stepIndex |-> i, totalSteps |-> Len(play.cascades)]
             bonusEv == [type |-> "game:bonus:triggered", playId |-> play.playId,
                         bonusData |-> step.bonusData]
             winEv == [type |-> "game:win:increment", playId |-> play.playId,
                       amount |-> step.winStep]
         IN  (IF play.playId = "" THEN <<>>
              ELSE IF step.bonus THEN <<started, bonusEv>>
              ELSE IF step.winStep > 0 THEN <<started, winEv>>
              ELSE <<started>>)
             \o ExpectedFrom(play, i + 1)

IsPrefix(a, b) == Len(a) <= Len(b) /\ a = SubSeq(b, 1, Len(a))

\* C7: the ordered list of notifications (types and payloads) of a run is
\* determined by the outcome alone: at any time it is a prefix of, and when
\* the run is over it equals, one list computed from the outcome, whatever
\* the fill mode, the layout, the strip start index drawn at random, or the
\* run that came before.
C7_Deterministic ==
    currentPlay # <<>> =>
        /\ IsPrefix(Events(log), ExpectedFrom(Cur, 1))
        /\ RunOver => Events(log) = ExpectedFrom(Cur, 1)

\* the same outcome has been submitted again after its run was over, in rodillo
\* mode with the second start index drawn
C7_Witness ==
    /\ prev.same
    /\ prev.phase = "completed"
    /\ fillMode = "rodillo"
    /\ Len(Cur.cascades) = MaxSteps
    /\ reel.active
    /\ reel.cursor[1] = (1 + reel.rows) % Len(reel.pool)

\* C8: at most one step of one run is in progress: the sequencer has at most
\* one callback pending, and it moves from step N to step N+1 only when step
\* N's chain is over (end of refill, end of bonus highlight, or a bonus step
\* with nothing to highlight), entering runStep(N+1).
C8_OneStepAtATime ==
    /\ [](Cardinality(ChainIdxs(timers)) <= 1)
    /\ [][(prev'.phase = "none" /\ ChainIdxs(timers) # {} /\ ChainIdxs(timers') # {}) =>
             \/ ChainTimer'.idx = ChainTimer.idx
             \/ /\ ChainTimer'.idx = ChainTimer.idx + 1
                /\ ChainTimer'.kind = "runStep"
                /\ \/ ChainTimer.kind \in {"stepDone", "bonusDone"}
                   \/ /\ ChainTimer.kind = "runStep"
                      /\ PlayOf(ChainTimer.play[1]).cascades[ChainTimer.idx + 1].bonus]_vars

C8_Witness ==
    /\ ChainIdxs(timers) # {}
    /\ ChainTimer.kind = "apply"
    /\ ChainTimer.idx = 1
    /\ Len(StepEvents) = 2

AllWinningMatches(play) ==
    \A i \in 1..Len(play.cascades) :
        ~play.cascades[i].bonus /\ play.cascades[i].winStep > 0

\* stepStarted{index, total}, winIncremented{w} per step, then sequenceCompleted{n},
\* the index of the first step being base
RECURSIVE NotifList(_, _, _)
NotifList(play, base, i) ==
    IF i > Len(play.cascades)
    THEN <<[type |-> "game:cascade:completed", playId |-> play.playId,
            totalSteps |-> Len(play.cascades)]>>
    ELSE <<[type |-> "game:cascade:step", playId |-> play.playId,
            stepIndex |-> base + (i - 1), totalSteps |-> Len(play.cascades)],
           [type |-> "game:win:increment", playId |-> play.playId,
            amount |-> play.cascades[i].winStep]>>
         \o NotifList(play, base, i + 1)

C9_Case ==
    /\ RunOver
    /\ fillMode = "replace"
    /\ ValidPlay(Cur)
    /\ Len(Cur.cascades) > 0
    /\ AllWinningMatches(Cur)

\* C9 as stated: under replace mode a run of n winning match steps emits
\* stepStarted{i, n} with a zero-based index i, winIncremented{w_i}, then
\* sequenceCompleted{n}, and ends on the last step's gridAfter.
C9_ZeroBasedIndex ==
    C9_Case =>
        /\ Events(log) = NotifList(Cur, 0, 1)
        /\ grid = Cur.cascades[Len(Cur.cascades)].gridAfter[1]

\* C9 amended: the same list with a one-based step index (stepStarted{1, 2},
\* winIncremented{10}, stepStarted{2, 2}, winIncremented{25}, sequenceCompleted{2}).
C9_OneBasedIndex ==
    C9_Case =>
        /\ Events(log) = NotifList(Cur, 1, 1)
        /\ grid = Cur.cascades[Len(Cur.cascades)].gridAfter[1]

C9_Witness ==
    /\ C9_Case
    /\ currentPlay = <<PlayId("p1", "A", <<"M1", "M2">>)>>
    /\ Len(log) = 5
    /\ Events(log)[3].stepIndex = 2
    /\ Events(log)[4].amount = 25

\* the step without the removeCells and dropIn entries that lie outside the board
Sanitized(step, rows, cols) ==
    LET InBoard(cell) == cell.row \in 0..(rows - 1) /\ cell.col \in 0..(cols - 1)
        ColInBoard(d) == d.col \in 0..(cols - 1)
    IN  [step EXCEPT !.removeCells = SelectSeq(@, InBoard),
                     !.dropIn = SelectSeq(@, ColInBoard)]

\* the run is over and its last notification is the completed one
C10_Completed ==
    /\ RunOver
    /\ Len(CompletedEvents) = 1
    /\ log[Len(log)].ev = [type |-> "game:cascade:completed", playId |-> Cur.playId,
                           totalSteps |-> Len(Cur.cascades)]

\* C10: for any outcome, malformed ones included (grid0 or gridAfter of another
\* shape, removeCells outside the board, dropIn for a column outside the board):
\* the grid is always exactly rows x cols; a mutation phase gives the grid
\* gridAfter padded with "" and cropped, and the handles the refill of the step
\* without its out-of-range entries, so that these change no in-board cell; and
\* a run that is not interrupted by a new submit or clear eventually emits the
\* completed notification.
C10_GracefulDegradation ==
    /\ [](IsShape(grid, boardSize.rows, boardSize.cols))
    /\ [][(Due("apply") /\ prev' = NoPrev /\ timers' # timers) =>
             LET step == PlayOf(DueTimer.play[1]).cascades[DueTimer.idx + 1]
                 rows == boardSize.rows
                 cols == boardSize.cols
                 clean == Sanitized(step, rows, cols)
             IN  /\ \A k \in Coords(rows, cols) :
                       grid'[k[1] + 1][k[2] + 1] =
                           CellAt(IF step.gridAfter = <<>> THEN grid ELSE step.gridAfter[1],
                                  k[1], k[2])
                 /\ cellMap' = IF fillMode = "replace"
                               THEN replaceRefill(cellMap, grid', removeSetOf(clean), rows, cols)
                               ELSE gravityRefill(cellMap, clean, removeSetOf(clean), rows, cols)
                 /\ DOMAIN cellMap' \subseteq Coords(rows, cols)]_vars
    /\ (currentPlay # <<>> /\ prev = NoPrev) ~> (C10_Completed \/ prev # NoPrev)

\* the run of the outcome with a ragged grid0 and a malformed step is over
C10_Witness ==
    /\ C10_Completed
    /\ currentPlay = <<PlayId("p2", "ragged", <<"X", "E">>)>>
    /\ fillMode = "cascade"
    /\ boardSize = [rows |-> 2, cols |-> 1]
    /\ grid = << <<"C">>, <<"">> >>

----------------------------------------------------------------------------

\* C11: in the rodillo intro the stop sequence is scheduled, and a column is
\* stopped, only after the rightmost column has been advanced rows x 2 times
\* by the spin timer while spinning.
C11_MinimumSpin ==
    /\ [](reel.active =>
            ((reel.stopScheduled \/ \E i \in 1..Len(timers) : timers[i].kind = "stopCol")
                => reel.steps >= reel.rows * 2))
    /\ [][(/\ prev' = NoPrev
           /\ reel.active
           /\ reel'.active
           /\ \E c \in 1..reel.cols : reel.spinning[c] /\ ~reel'.spinning[c])
              => /\ reel.stopScheduled
                 /\ reel.steps >= reel.rows * 2]_vars

\* the rightmost of two columns has been stopped
C11_Witness ==
    /\ reel.active
    /\ reel.cols = 2
    /\ reel.stopScheduled
    /\ ~reel.spinning[2]
    /\ reel.steps = reel.rows * 2

----------------------------------------------------------------------------
(* playBonusTriggerHighlight as called by animateStep for a bonus step: the *)
(* cells it highlights, for the grid and board size the scene holds then.  *)

MaxTriggerCells == 2

HighlightSize == [rows |-> 2, cols |-> 2]

\* the 2 x 2 grids over the trigger symbol and one other symbol
HighlightGrids ==
    {<< <<a, b>>, <<c, d>> >> : a \in {"N", "A"}, b \in {"N", "A"},
                                c \in {"N", "A"}, d \in {"N", "A"}}

\* triggerCells entries: the board's cells and one cell outside the board
TriggerCellChoices == {Cell(0, 0), Cell(0, 1), Cell(1, 0), Cell(1, 1), Cell(2, 0)}

\* step.bonusData: absent, or a triggerCount with triggerCells omitted or listed
BonusDataChoices ==
    {<<>>}
    \cup {<< [triggerCount |-> n, triggerCells |-> <<>>] >> : n \in 0..4}
    \cup {<< [triggerCount |-> n, triggerCells |-> <<cells>>] >> :
            n \in 0..4, cells \in SeqsUpTo(TriggerCellChoices, MaxTriggerCells)}

HighlightInit ==
    /\ SceneAtRest
    /\ refill = <<>>
    /\ page = <<>>
    /\ client = <<>>
    /\ effects = <<>>
    /\ measured = <<>>
    /\ money = <<>>
    /\ MachineInit
    /\ BusInit
    /\ \E g \in HighlightGrids, data \in BonusDataChoices :
          highlight = [grid |-> g, bonusData |-> data, called |-> FALSE, targets |-> <<>>]

\* animateStep's bonus branch up to the selection of highlightTargets
PlayBonusTriggerHighlight ==
    /\ ~highlight.called
    /\ highlight' =
          [highlight EXCEPT
              !.called = TRUE,
              !.targets = highlightTargets(stepTriggerCount(highlight),
                                           stepTriggerCells(highlight),
                                           highlight.grid, HighlightSize)]
    /\ UNCHANGED <<sceneVars, refill, page, client, effects, measured, money, machineVars, busVars>>

HighlightNext == PlayBonusTriggerHighlight

HighlightSpec == HighlightInit /\ [][HighlightNext]_vars

\* position of a cell in row-major order
RowMajor(cell, size) == cell.row * size.cols + cell.col

HoldsTrigger(g, cell) == CellAt(g, cell.row, cell.col) = "N"

TriggerCellsOf(g, size) ==
    {cell \in {Cell(k[1], k[2]) : k \in Coords(size.rows, size.cols)} : HoldsTrigger(g, cell)}

\* targets are the first n trigger-symbol cells of the grid in row-major order
\* (all of them if there are fewer)
IsFirstTriggers(targets, g, size, n) ==
    LET all == TriggerCellsOf(g, size)
    IN  /\ Len(targets) = Min(n, Cardinality(all))
        /\ \A i \in 1..Len(targets) : targets[i] \in all
        /\ \A i \in 1..(Len(targets) - 1) :
              RowMajor(targets[i], size) < RowMajor(targets[i + 1], size)
        /\ \A cell \in all :
              (\A i \in 1..Len(targets) : targets[i] # cell) =>
                  \A i \in 1..Len(targets) : RowMajor(targets[i], size) < RowMajor(cell, size)

\* C12: for a bonus step with triggerCells omitted and a triggerCount of 1..3,
\* the highlighted cells are exactly the first min(triggerCount, k) cells that
\* hold the trigger symbol in row-major order, k being the number of such
\* cells; their number exceeds neither triggerCount nor 3.
C12_FallbackFirstInRowMajor ==
    (/\ highlight # <<>>
     /\ highlight.called
     /\ highlight.bonusData # <<>>
     /\ highlight.bonusData[1].triggerCells = <<>>
     /\ highlight.bonusData[1].triggerCount \in 1..3) =>
        /\ IsFirstTriggers(highlight.targets, highlight.grid, HighlightSize,
                           highlight.bonusData[1].triggerCount)
        /\ Len(highlight.targets) <= highlight.bonusData[1].triggerCount
        /\ Len(highlight.targets) <= 3

\* triggerCount 3, triggerCells omitted, two trigger cells: those two are highlighted
C12_Witness ==
    /\ highlight # <<>>
    /\ highlight.called
    /\ highlight.bonusData = << [triggerCount |-> 3, triggerCells |-> <<>>] >>
    /\ highlight.grid = << <<"A", "N">>, <<"N", "A">> >>
    /\ highlight.targets = <<Cell(0, 1), Cell(1, 0)>>

\* the positions of triggerCells that playBonusTriggerHighlight keeps: inside
\* the board, holding the trigger symbol, not listed before
KeptPositions(cells, g, size) ==
    {i \in 1..Len(cells) :
        /\ cells[i].row \in 0..(size.rows - 1)
        /\ cells[i].col \in 0..(size.cols - 1)
        /\ HoldsTrigger(g, cells[i])
        /\ \A j \in 1..(i - 1) : cells[j] # cells[i]}

\* the n-th smallest element of a set of numbers
NthOf(S, n) == CHOOSE i \in S : Cardinality({j \in S : j < i}) = n - 1

C13_Case ==
    /\ highlight # <<>>
    /\ highlight.called
    /\ highlight.bonusData # <<>>

\* C13 as stated: if triggerCells is given and each listed cell holds the
\* trigger symbol the targets are the first triggerCount cells of triggerCells;
\* otherwise they are the first triggerCount trigger cells of the row-major scan.
C13_AllOrFallback ==
    (C13_Case /\ highlight.bonusData[1].triggerCount \in 1..3) =>
        LET data == highlight.bonusData[1]
            cells == IF data.triggerCells = <<>> THEN <<>> ELSE data.triggerCells[1]
            allMatch == \A i \in 1..Len(cells) :
                           /\ cells[i].row \in 0..(HighlightSize.rows - 1)
                           /\ cells[i].col \in 0..(HighlightSize.cols - 1)
                           /\ HoldsTrigger(highlight.grid, cells[i])
        IN  IF data.triggerCells # <<>> /\ allMatch
            THEN highlight.targets = Take(cells, data.triggerCount)
            ELSE IsFirstTriggers(highlight.targets, highlight.grid, HighlightSize,
                                 data.triggerCount)

\* C13 amended: the targets are the first n of the listed cells that lie inside
\* the board, hold the trigger symbol and were not listed before, in list
\* order, n being triggerCount clamped to 1..3; only if no listed cell
\* qualifies (triggerCells missing, empty or without any such cell) are they
\* the first n trigger cells of the row-major scan.
C13_KeptOrFallback ==
    C13_Case =>
        LET data == highlight.bonusData[1]
            cells == IF data.triggerCells = <<>> THEN <<>> ELSE data.triggerCells[1]
            n == Max(1, Min(3, data.triggerCount))
            kept == KeptPositions(cells, highlight.grid, HighlightSize)
        IN  IF kept # {}
            THEN /\ Len(highlight.targets) = Min(n, Cardinality(kept))
                 /\ \A i \in 1..Len(highlight.targets) :
                       highlight.targets[i] = cells[NthOf(kept, i)]
            ELSE IsFirstTriggers(highlight.targets, highlight.grid, HighlightSize, n)

\* one of two listed cells does not hold the trigger symbol: the other one alone
\* is highlighted, although the grid holds two trigger cells
C13_Witness ==
    /\ C13_Case
    /\ highlight.bonusData =
          << [triggerCount |-> 2, triggerCells |-> << <<Cell(0, 0), Cell(1, 1)>> >>] >>
    /\ highlight.grid = << <<"A", "N">>, <<"A", "N">> >>
    /\ highlight.targets = <<Cell(1, 1)>>

----------------------------------------------------------------------------

IsWin(ev) == ev.type = "game:win:increment"
IsStep(ev) == ev.type = "game:cascade:step"

\* C14: a win notification directly follows the step notification of a match
\* step with winStep > 0 and carries that step's winStep (the delta); it is
\* emitted by the call that starts the removal and schedules the mutation, so
\* the grid is not yet changed; when the mutation of such a step runs, the
\* step's win notification is the latest notification; a step with winStep = 0
\* reaches its mutation with its step notification still the latest one.
C14_WinAtRemovalStart ==
    /\ [](\A i \in 1..Len(log) :
            IsWin(log[i].ev) =>
                /\ i > 1
                /\ IsStep(log[i - 1].ev)
                /\ ~Cur.cascades[log[i - 1].ev.stepIndex].bonus
                /\ log[i].ev.amount = Cur.cascades[log[i - 1].ev.stepIndex].winStep
                /\ log[i].ev.amount > 0)
    /\ [][Len(WinEvents') > Len(WinEvents) =>
             /\ IsWin(log'[Len(log')].ev)
             /\ ChainIdxs(timers') # {}
             /\ ChainTimer'.kind = "apply"
             /\ log'[Len(log') - 1].ev.stepIndex = ChainTimer'.idx + 1
             /\ grid' = grid
             /\ cellMap' = cellMap]_vars
    /\ [][(Due("apply") /\ prev' = NoPrev /\ timers' # timers /\ HasPlayId(currentPlay)) =>
             LET step == PlayOf(DueTimer.play[1]).cascades[DueTimer.idx + 1]
                 last == log[Len(log)].ev
             IN  /\ log' = log
                 /\ IF step.winStep > 0
                    THEN IsWin(last) /\ last.amount = step.winStep
                    ELSE IsStep(last) /\ last.stepIndex = DueTimer.idx + 1]_vars

\* the removal of the second step has started: its win of 25 is notified, the
\* total is 35, the grid is still the first step's gridAfter
C14_Witness ==
    /\ currentPlay = <<PlayId("p1", "A", <<"M1", "M2">>)>>
    /\ ChainIdxs(timers) # {}
    /\ ChainTimer.kind = "apply"
    /\ ChainTimer.idx = 1
    /\ log[Len(log)].ev.type = "game:win:increment"
    /\ log[Len(log)].ev.amount = 25
    /\ accumulatedWin = 35
    /\ grid = StepM1.gridAfter[1]

----------------------------------------------------------------------------
(* computeMetrics as a function of the container box and the board shape.  *)

\* containerWidth values, zero and negative included
MetricsWidths == {-10, 0, 1, 60, 100, 150, 320, 639, 640, 800, 2000}

\* containerHeight: missing (<<>>) or a number, zero and negative included
MetricsHeights == {<<>>} \cup {<<h>> : h \in {-10, 0, 1, 60, 100, 200, 320, 640, 2000}}

\* previewSize: missing, or rows and cols (zero and negative included)
MetricsDims == {-1, 0, 1, 2, 3, 5, 7, 10}
MetricsShapes ==
    {<<>>} \cup {<< [rows |-> r, cols |-> c] >> : r \in MetricsDims, c \in MetricsDims}

MetricsInit ==
    /\ SceneAtRest
    /\ refill = <<>>
    /\ page = <<>>
    /\ client = <<>>
    /\ effects = <<>>
    /\ highlight = <<>>
    /\ money = <<>>
    /\ MachineInit
    /\ BusInit
    /\ \E w \in MetricsWidths, h \in MetricsHeights, shape \in MetricsShapes,
          mode \in {"nivel1", "unset"} :
          measured = [containerWidth |-> w, containerHeight |-> h, mode |-> mode,
                      previewSize |-> shape, called |-> FALSE, result |-> DEFAULT_METRICS]

\* computeMetrics(undefined, containerWidth, containerHeight, mode, previewSize);
\* a missing containerHeight is falsy like 0
ComputeMetrics ==
    /\ ~measured.called
    /\ measured' =
          [measured EXCEPT
              !.called = TRUE,
              !.result = computeMetrics(<<>>, measured.containerWidth,
                                        IF measured.containerHeight = <<>> THEN 0
                                        ELSE measured.containerHeight[1],
                                        measured.mode, measured.previewSize)]
    /\ UNCHANGED <<sceneVars, refill, page, client, effects, highlight, money, machineVars, busVars>>

MetricsNext == ComputeMetrics

MetricsSpec == MetricsInit /\ [][MetricsNext]_vars

\* the board shape of a call: previewSize if both are non-zero, else the mode's preview
MeasuredShape ==
    LET size == measured.previewSize
    IN  IF size # <<>> /\ size[1].rows # 0 /\ size[1].cols # 0
        THEN [rows |-> Max(1, size[1].rows), cols |-> Max(1, size[1].cols)]
        ELSE IF measured.mode = "nivel1" THEN [rows |-> 3, cols |-> 5]
        ELSE [rows |-> 7, cols |-> 5]

\* width and height the layout works with: the container's, 640 if not positive
MeasuredWidth == IF measured.containerWidth > 0 THEN measured.containerWidth ELSE 640
MeasuredHeight ==
    IF measured.containerHeight # <<>> /\ measured.containerHeight[1] > 0
    THEN measured.containerHeight[1] ELSE 640

\* pixels left for the cells after padding, header offset and gaps (at least 120)
FreeWidth ==
    MeasuredWidth - 2 * (IF MeasuredWidth >= 640 THEN 12 ELSE 8) - 2 * (MeasuredShape.cols - 1)
FreeHeight ==
    MeasuredHeight - 32 - 2 * (IF MeasuredWidth >= 640 THEN 12 ELSE 8)
        - 2 * (MeasuredShape.rows - 1)

\* a cell size (in 1/Scale px) with which the cells fit the usable width and height
CellFits(c) ==
    /\ c * MeasuredShape.cols <= Max(120, FreeWidth) * Scale
    /\ c * MeasuredShape.rows <= Max(120, FreeHeight) * Scale

CellFitsExactly(c) ==
    /\ CellFits(c)
    /\ \/ c * MeasuredShape.cols = Max(120, FreeWidth) * Scale
       \/ c * MeasuredShape.rows = Max(120, FreeHeight) * Scale

\* C15: for every board shape and container size (zero, negative or missing
\* dimensions included) the cell size lies in 20..72 and is the smaller of the
\* width-constrained and height-constrained cell size, clamped to that range.
C15_CellSizeClamped ==
    (measured # <<>> /\ measured.called) =>
        LET c == measured.result.cellSize
        IN  /\ 20 * Scale <= c
            /\ c <= 72 * Scale
            /\ IF CellFits(72 * Scale) THEN c = 72 * Scale
               ELSE IF ~CellFits(20 * Scale) THEN c = 20 * Scale
               ELSE CellFitsExactly(c)

\* a 7 x 5 board in a 320 x 320 container: the height decides, the cell is 260 / 7 px
C15_Witness ==
    /\ measured # <<>>
    /\ measured.called
    /\ measured.containerWidth = 320
    /\ measured.containerHeight = <<320>>
    /\ measured.previewSize = <<>>
    /\ measured.mode = "unset"
    /\ CellFitsExactly(measured.result.cellSize)
    /\ measured.result.cellSize * 7 = 260 * Scale

C16_Case ==
    /\ measured # <<>>
    /\ measured.called
    /\ measured.containerWidth > 0
    /\ measured.containerHeight # <<>>
    /\ measured.containerHeight[1] > 0

\* C16 as stated: for every board shape and every positive container width and
\* height the canvas is at most as wide and as high as the container.
C16_FitsAnyContainer ==
    C16_Case =>
        /\ measured.result.width <= measured.containerWidth * Scale
        /\ measured.result.height <= measured.containerHeight[1] * Scale

\* C16 amended: the canvas fits the container whenever the container leaves,
\* after padding, header offset and gaps, at least 120 px and at least 20 px
\* per cell in both directions.
C16_FitsRoomyContainer ==
    (/\ C16_Case
     /\ FreeWidth >= 120
     /\ FreeHeight >= 120
     /\ FreeWidth >= 20 * MeasuredShape.cols
     /\ FreeHeight >= 20 * MeasuredShape.rows) =>
        /\ measured.result.width <= measured.containerWidth * Scale
        /\ measured.result.height <= measured.containerHeight[1] * Scale

\* a 7 x 5 board in a 320 x 320 container is 277.7 px wide and 312 px high
C16_Witness ==
    /\ C16_Case
    /\ measured.containerWidth = 320
    /\ measured.containerHeight = <<320>>
    /\ measured.previewSize = <<>>
    /\ measured.mode = "unset"
    /\ measured.result.height = 312 * Scale
    /\ measured.result.width < 320 * Scale

----------------------------------------------------------------------------
(* createStateMachine (src/src/game/state-machine.test.ts, lines 42-62)     *)

MaxTransitions == 2

\* GameState values used
GameStates == {"MENU", "LOADING", "READY"}

ContextKeys == {"mode", "packId", "ticketIndex"}

\* Partial<StateContext>: any subset of the keys with a value each
PartialChoices ==
    {[k \in K |-> full[k]] :
        K \in SUBSET ContextKeys,
        full \in [mode : {"nivel1", "pack"}, packId : {"pack-1"}, ticketIndex : {0}]}

\* mutant: the context is replaced by the partial
assignReplaces(target, source) == source

\* Object.assign(target, source)
assign(target, source) ==
    [k \in DOMAIN target \cup DOMAIN source |->
        IF k \in DOMAIN source THEN source[k] ELSE target[k]]

\* createStateMachine(initial)
MachineSpecInit ==
    /\ SceneAtRest
    /\ refill = <<>>
    /\ page = <<>>
    /\ client = <<>>
    /\ effects = <<>>
    /\ measured = <<>>
    /\ highlight = <<>>
    /\ money = <<>>
    /\ BusInit
    /\ current \in GameStates
    /\ ctx = <<>>
    /\ machineCalls = [initial |-> current, calls |-> <<>>]

\* machine.transition(next, partial); partial is optional
transition(next, partial) ==
    /\ Len(machineCalls.calls) < MaxTransitions
    /\ current' = next
    /\ ctx' = IF partial # <<>> THEN assign(ctx, partial[1]) ELSE ctx
    /\ machineCalls' = [machineCalls EXCEPT
                          !.calls = Append(@, [next |-> next, partial |-> partial])]
    /\ UNCHANGED <<sceneVars, refill, page, client, effects, measured, highlight, money, busVars>>

MachineNext ==
    \E next \in GameStates, partial \in {<<>>} \cup {<<p>> : p \in PartialChoices} :
        transition(next, partial)

MachineSpec == MachineSpecInit /\ [][MachineNext]_vars

\* the calls that supplied a key
SuppliersOf(key) ==
    {i \in 1..Len(machineCalls.calls) :
        /\ machineCalls.calls[i].partial # <<>>
        /\ key \in DOMAIN machineCalls.calls[i].partial[1]}

\* C17: state is the initial state until the first transition and the latest
\* next afterwards; context holds, for each key, the value of the latest
\* partial that supplied it, and lacks the keys no partial supplied (so a
\* transition without partial changes no key).
C17_StateAndMergedContext ==
    /\ current = IF machineCalls.calls = <<>> THEN machineCalls.initial
                 ELSE machineCalls.calls[Len(machineCalls.calls)].next
    /\ DOMAIN ctx = {key \in ContextKeys : SuppliersOf(key) # {}}
    /\ \A key \in DOMAIN ctx :
          LET latest == CHOOSE i \in SuppliersOf(key) : \A j \in SuppliersOf(key) : j <= i
          IN  ctx[key] = machineCalls.calls[latest].partial[1][key]

\* the test's run: MENU, transition("LOADING"), transition("READY", {mode, packId})
C17_Witness ==
    /\ machineCalls.initial = "MENU"
    /\ Len(machineCalls.calls) = 2
    /\ machineCalls.calls[1] = [next |-> "LOADING", partial |-> <<>>]
    /\ machineCalls.calls[2].partial # <<>>
    /\ current = "READY"
    /\ DOMAIN ctx = {"mode", "packId"}
    /\ ctx["mode"] = "nivel1"
    /\ ctx["packId"] = "pack-1"

----------------------------------------------------------------------------
(* formatMoney (src/src/lib/format-money.ts).  A text is a sequence of     *)
(* characters (the currency code is kept as one element); an amount is a   *)
(* whole number of tenths, which a JavaScript number holds exactly enough  *)
(* for toFixed to round it as written here.                                *)

MaxDecimals == 2

\* amounts, in tenths
MoneyTenths ==
    {0, 4, 5, 9, 10, 994, 995, 9994, 9996, 10000, 123456, 999999, 9999995, 12345678,
     -4, -5, -12345, -9999995}

MoneyFormats ==
    [currency : {"USD", "CLP"}, decimals : 0..MaxDecimals,
     thousandSeparator : {",", ".", "'"}, decimalSeparator : {".", ","}]

RECURSIVE Pow10(_)
Pow10(n) == IF n = 0 THEN 1 ELSE 10 * Pow10(n - 1)

DigitChars == <<"0", "1", "2", "3", "4", "5", "6", "7", "8", "9">>

IsDigit(ch) == \E i \in 1..10 : DigitChars[i] = ch

\* decimal digits of a natural number
RECURSIVE DigitsOf(_)
DigitsOf(n) ==
    IF n < 10 THEN <<DigitChars[n + 1]>>
    ELSE Append(DigitsOf(n \div 10), DigitChars[(n % 10) + 1])

\* k zeros
RECURSIVE Zeros(_)
Zeros(k) == IF k = 0 THEN <<>> ELSE Append(Zeros(k - 1), "0")

\* Number.prototype.toFixed of an amount of tenths: the nearest multiple of
\* 10^-decimals, the larger one of two equally near, the sign put in front;
\* with one fraction digit or more the tenths are exact and padded with zeros
toFixed(tenths, decimals) ==
    LET abs == IF tenths < 0 THEN -tenths ELSE tenths
    IN  (IF tenths < 0 THEN <<"-">> ELSE <<>>)
        \o (IF decimals = 0
            THEN DigitsOf((abs + 5) \div 10)
            ELSE DigitsOf(abs \div 10)
                 \o <<".", DigitChars[(abs % 10) + 1]>> \o Zeros(decimals - 1))

\* fixed.split("."): the parts before and after the first "."
split(text) ==
    IF \E i \in 1..Len(text) : text[i] = "."
    THEN LET dot == CHOOSE i \in 1..Len(text) :
                        text[i] = "." /\ \A j \in 1..(i - 1) : text[j] # "."
         IN  <<SubSeq(text, 1, dot - 1), SubSeq(text, dot + 1, Len(text))>>
    ELSE <<text>>

\* number of digits that follow position i without interruption
RECURSIVE DigitRun(_, _)
DigitRun(text, i) ==
    IF i + 1 <= Len(text) /\ IsDigit(text[i + 1]) THEN 1 + DigitRun(text, i + 1) ELSE 0

\* /\B(?=(\d{3})+(?!\d))/ matches after position i: no word boundary there
\* (a digit on both sides, or none), and a run of 3, 6, ... digits follows
MatchesAfter(text, i) ==
    /\ DigitRun(text, i) > 0
    /\ DigitRun(text, i) % 3 = 0
    /\ IF i = 0 THEN FALSE ELSE IsDigit(text[i])

\* mutant: the groups are counted from the left
RECURSIVE withThousandsFromLeft(_, _, _)
withThousandsFromLeft(intPart, separator, i) ==
    IF i > Len(intPart) THEN <<>>
    ELSE <<intPart[i]>>
         \o (IF i < Len(intPart) /\ IsDigit(intPart[i]) /\ i % 3 = 0
             THEN <<separator>> ELSE <<>>)
         \o withThousandsFromLeft(intPart, separator, i + 1)

\* intPart.replace(/\B(?=(\d{3})+(?!\d))/g, thousandSeparator), from character i on
RECURSIVE withThousands(_, _, _)
withThousands(intPart, separator, i) ==
    IF i > Len(intPart) THEN <<>>
    ELSE <<intPart[i]>>
         \o (IF MatchesAfter(intPart, i) THEN <<separator>> ELSE <<>>)
         \o withThousands(intPart, separator, i + 1)

formatMoney(amount, format) ==
    LET fixed == toFixed(amount, format.decimals)
        parts == split(fixed)
        intPart == parts[1]
    IN  <<format.currency, " ">>
        \o withThousands(intPart, format.thousandSeparator, 1)
        \o (IF Len(parts) > 1 /\ parts[2] # <<>>
            THEN <<format.decimalSeparator>> \o parts[2]
            ELSE <<>>)

MoneyInit ==
    /\ SceneAtRest
    /\ refill = <<>>
    /\ page = <<>>
    /\ client = <<>>
    /\ effects = <<>>
    /\ measured = <<>>
    /\ highlight = <<>>
    /\ MachineInit
    /\ BusInit
    /\ \E amount \in MoneyTenths, format \in MoneyFormats :
          money = [amount |-> amount, format |-> format, called |-> FALSE, text |-> <<>>]

FormatMoney ==
    /\ ~money.called
    /\ money' = [money EXCEPT !.called = TRUE,
                              !.text = formatMoney(money.amount, money.format)]
    /\ UNCHANGED <<sceneVars, refill, page, client, effects, measured, highlight, machineVars, busVars>>

MoneyNext == FormatMoney

MoneySpec == MoneyInit /\ [][MoneyNext]_vars

DigitValue(ch) == CHOOSE d \in 0..9 : DigitChars[d + 1] = ch

\* the natural number a sequence of digits writes
RECURSIVE ValueOf(_)
ValueOf(digits) ==
    IF digits = <<>> THEN 0
    ELSE 10 * ValueOf(SubSeq(digits, 1, Len(digits) - 1)) + DigitValue(digits[Len(digits)])

MoneyAbs == IF money.amount < 0 THEN -money.amount ELSE money.amount

MoneySignLen == IF money.amount < 0 THEN 1 ELSE 0

MoneyFractionLen == IF money.format.decimals > 0 THEN money.format.decimals + 1 ELSE 0

\* the text after the currency and the space
MoneyBody == SubSeq(money.text, 3, Len(money.text))

\* the characters of the integer part, separators included
MoneyIntPart == SubSeq(MoneyBody, MoneySignLen + 1, Len(MoneyBody) - MoneyFractionLen)

\* the fraction digits
MoneyFraction ==
    SubSeq(MoneyBody, Len(MoneyBody) - money.format.decimals + 1, Len(MoneyBody))

\* currency, space, sign, digits in groups of three counted from the right,
\* and the separator with exactly `decimals` digits of the amount's fraction
\* when decimals > 0, nothing when decimals = 0
MoneyShape ==
    /\ Len(money.text) >= 3 + MoneySignLen + MoneyFractionLen
    /\ money.text[1] = money.format.currency
    /\ money.text[2] = " "
    /\ money.amount < 0 => MoneyBody[1] = "-"
    /\ Len(MoneyIntPart) % 4 # 0
    /\ \A j \in 1..Len(MoneyIntPart) :
          IF (Len(MoneyIntPart) - j + 1) % 4 = 0
          THEN MoneyIntPart[j] = money.format.thousandSeparator
          ELSE IsDigit(MoneyIntPart[j])
    /\ IsDigit(MoneyIntPart[1]) /\ (MoneyIntPart[1] = "0" => Len(MoneyIntPart) = 1)
    /\ IF money.format.decimals > 0
       THEN /\ MoneyBody[Len(MoneyBody) - money.format.decimals] = money.format.decimalSeparator
            /\ \A j \in 1..Len(MoneyFraction) : IsDigit(MoneyFraction[j])
            /\ ValueOf(MoneyFraction) * 10 =
                   (MoneyAbs % 10) * Pow10(money.format.decimals)
       ELSE \A j \in 1..Len(MoneyBody) : MoneyBody[j] # money.format.decimalSeparator
                                         \/ money.format.decimalSeparator = money.format.thousandSeparator

\* the number the digits of the integer part write
MoneyIntValue == ValueOf(SelectSeq(MoneyIntPart, IsDigit))

\* C18 as stated: formatMoney returns the currency, a space, the integer part
\* of the amount grouped in threes from the right by thousandSeparator, then
\* decimalSeparator and exactly `decimals` fraction digits when decimals > 0
\* and no decimal separator when decimals = 0.
C18_IntegerPartOfAmount ==
    money.called => (MoneyShape /\ MoneyIntValue = MoneyAbs \div 10)

\* C18, amended: the same text, its integer part being that of the amount
\* rounded to `decimals` fraction digits (1999.6 with no decimals gives 2,000).
C18_IntegerPartOfRounded ==
    money.called =>
        /\ MoneyShape
        /\ IF money.format.decimals > 0
           THEN MoneyIntValue = MoneyAbs \div 10
           ELSE /\ 10 * MoneyIntValue - 5 <= MoneyAbs
                /\ MoneyAbs < 10 * MoneyIntValue + 5

\* formatMoney(12345.6, USD with 2 decimals, "," and ".") gave "USD 12,345.60"
C18_Witness ==
    /\ money.called
    /\ money.amount = 123456
    /\ money.format = [currency |-> "USD", decimals |-> 2,
                       thousandSeparator |-> ",", decimalSeparator |-> "."]
    /\ money.text = <<"USD", " ", "1", "2", ",", "3", "4", "5", ".", "6", "0">>

----------------------------------------------------------------------------
(* createEventBus (src/src/lib/event-bus.ts).  A handler is a function     *)
(* that returns normally and does not call the bus, as the handlers of     *)
(* this repository do; a Set is the sequence of its elements in insertion  *)
(* order.                                                                  *)

MaxBusCalls == 4

BusEvents == {"game:step:started", "game:win:increment"}

BusHandlers == {"h1", "h2", "h3"}

BusPayloads == {"p1", "p2"}

BusCall(op, event, handler, payload) ==
    [op |-> op, event |-> event, handler |-> handler, payload |-> payload]

\* handlers.has(event)
has(event) == event \in DOMAIN handlers

\* handlers.get(event), the empty sequence standing for undefined
get(event) == IF has(event) THEN handlers[event] ELSE <<>>

Elements(set) == {set[i] : i \in 1..Len(set)}

\* mutant: the handler is added again although the Set holds it
addAlways(set, handler) == Append(set, handler)

\* Set.prototype.add: appended unless present
add(set, handler) ==
    IF handler \in Elements(set) THEN set ELSE Append(set, handler)

\* Set.prototype.delete
delete(set, handler) == SelectSeq(set, LAMBDA h : h # handler)

BusSpecInit ==
    /\ SceneAtRest
    /\ refill = <<>>
    /\ page = <<>>
    /\ client = <<>>
    /\ effects = <<>>
    /\ measured = <<>>
    /\ highlight = <<>>
    /\ money = <<>>
    /\ MachineInit
    /\ BusInit

on(event, handler) ==
    /\ Len(busCalls) < MaxBusCalls
    /\ handlers' = [e \in DOMAIN handlers \cup {event} |->
                       IF e = event THEN add(get(event), handler) ELSE handlers[e]]
    /\ unsubscribes' = unsubscribes \cup {<<event, handler, Len(busCalls) + 1>>}
    /\ busCalls' = Append(busCalls, BusCall("on", event, handler, ""))
    /\ UNCHANGED <<sceneVars, refill, page, client, effects, measured, highlight, money, machineVars, delivered>>

\* a call of a closure that on returned: <<event, handler>> as captured, and
\* the number of the on call that returned it
Unsubscribe(closure) ==
    /\ Len(busCalls) < MaxBusCalls
    /\ handlers' = IF has(closure[1])
                   THEN [handlers EXCEPT ![closure[1]] = delete(@, closure[2])]
                   ELSE handlers
    /\ busCalls' = Append(busCalls, [op |-> "unsubscribe", event |-> closure[1],
                                     handler |-> closure[2], payload |-> "",
                                     reg |-> closure[3]])
    /\ UNCHANGED <<sceneVars, refill, page, client, effects, measured, highlight, money, machineVars, unsubscribes, delivered>>

emit(event, payload) ==
    /\ Len(busCalls) < MaxBusCalls
    /\ busCalls' = Append(busCalls, BusCall("emit", event, "", payload))
    /\ delivered' = delivered \o
           [i \in 1..Len(get(event)) |->
               [handler |-> get(event)[i], payload |-> payload, call |-> Len(busCalls')]]
    /\ UNCHANGED <<sceneVars, refill, page, client, effects, measured, highlight, money, machineVars, handlers, unsubscribes>>

clear ==
    /\ Len(busCalls) < MaxBusCalls
    /\ handlers' = <<>>
    /\ busCalls' = Append(busCalls, BusCall("clear", "", "", ""))
    /\ UNCHANGED <<sceneVars, refill, page, client, effects, measured, highlight, money, machineVars, unsubscribes, delivered>>

BusNext ==
    \/ \E event \in BusEvents, handler \in BusHandlers : on(event, handler)
    \/ \E closure \in unsubscribes : Unsubscribe(closure)
    \/ \E event \in BusEvents, payload \in BusPayloads : emit(event, payload)
    \/ clear

BusSpec == BusSpecInit /\ [][BusNext]_vars

\* the handlers subscribed to the event after the first k bus calls, in the
\* order of their subscriptions
RECURSIVE SubscribedAfter(_, _)
SubscribedAfter(k, event) ==
    IF k = 0 THEN <<>>
    ELSE LET before == SubscribedAfter(k - 1, event)
             call == busCalls[k]
         IN  IF call.op = "clear" THEN <<>>
             ELSE IF call.event # event THEN before
             ELSE IF call.op = "on"
                  THEN IF \E i \in 1..Len(before) : before[i] = call.handler
                       THEN before
                       ELSE before \o <<call.handler>>
             ELSE IF call.op = "unsubscribe"
                  THEN SelectSeq(before, LAMBDA h : h # call.handler)
             ELSE before

\* the invocations made during bus call k
DeliveredDuring(k) == SelectSeq(delivered, LAMBDA d : d.call = k)

\* C19: emit(event, payload) invokes every handler subscribed to the event
\* at that moment exactly once with the payload, in subscription order,
\* before it returns, and no handler subscribed only to other events; no
\* invocation is made outside an emit call or left for later.
C19_SynchronousDelivery ==
    /\ \A k \in 1..Len(busCalls) :
          IF busCalls[k].op = "emit"
          THEN DeliveredDuring(k) =
                   [i \in 1..Len(SubscribedAfter(k - 1, busCalls[k].event)) |->
                       [handler |-> SubscribedAfter(k - 1, busCalls[k].event)[i],
                        payload |-> busCalls[k].payload,
                        call |-> k]]
          ELSE DeliveredDuring(k) = <<>>
    /\ \A i \in 1..Len(delivered) :
          /\ delivered[i].call \in 1..Len(busCalls)
          /\ i > 1 => delivered[i - 1].call <= delivered[i].call

\* h2 then h1 subscribed to the step event, h3 to the win event only: the
\* step event was delivered to h2 and h1, in that order
C19_Witness ==
    /\ busCalls = <<BusCall("on", "game:step:started", "h2", ""),
                    BusCall("on", "game:step:started", "h1", ""),
                    BusCall("on", "game:win:increment", "h3", ""),
                    BusCall("emit", "game:step:started", "", "p2")>>
    /\ delivered = <<[handler |-> "h2", payload |-> "p2", call |-> 4],
                     [handler |-> "h1", payload |-> "p2", call |-> 4]>>

----------------------------------------------------------------------------
(* Bonus steps *)

IsBonusEv(ev) == ev.type = "game:bonus:triggered"

\* the step in progress (started, its successor not yet started) is a bonus step
InBonusStep ==
    /\ currentPlay # <<>>
    /\ ChainIdxs(timers) # {}
    /\ StepsStarted >= 1
    /\ Cur.cascades[StepsStarted].bonus

\* C20: a bonus step mutates nothing and adds no win: every transition that
\* starts a bonus step or happens while it is in progress leaves the grid,
\* the keys of the handle map and the accumulated win as they were, whatever
\* winStep and removeCells the step carries; its step notification is
\* followed by exactly one game:bonus:triggered with the step's bonusData,
\* which comes before the next game:cascade:step or game:cascade:completed,
\* and while it has not come yet the highlight is still running.
C20_BonusStepFrame ==
    /\ [][InBonusStep' =>
             /\ grid' = grid
             /\ DOMAIN cellMap' = DOMAIN cellMap
             /\ accumulatedWin' = accumulatedWin]_vars
    /\ [](\A i \in 1..Len(log) :
            (IsStep(log[i].ev) /\ Cur.cascades[log[i].ev.stepIndex].bonus) =>
                /\ i = Len(log) =>
                      /\ ChainIdxs(timers) # {}
                      /\ ChainTimer.kind = "bonusDone"
                      /\ ChainTimer.idx + 1 = log[i].ev.stepIndex
                /\ i < Len(log) =>
                      /\ IsBonusEv(log[i + 1].ev)
                      /\ log[i + 1].ev.bonusData = Cur.cascades[log[i].ev.stepIndex].bonusData
                      /\ log[i + 1].ev.playId = Cur.playId
                /\ i + 1 < Len(log) => ~IsBonusEv(log[i + 2].ev))

\* the bonus step that carries winStep 7 and a cell to remove is over, the
\* next step has not started: its notification was followed by the bonus
\* notification, the grid is grid0 and nothing was won
C20_Witness ==
    /\ currentPlay = <<PlayId("p1", "A", <<"BW", "M1">>)>>
    /\ ChainIdxs(timers) # {}
    /\ ChainTimer.kind = "runStep"
    /\ ChainTimer.idx = 1
    /\ Len(log) = 2
    /\ IsStep(log[1].ev)
    /\ log[2].ev = [type |-> "game:bonus:triggered", playId |-> "p1",
                    bonusData |-> StepBW.bonusData]
    /\ grid = Grid0A
    /\ accumulatedWin = 0

----------------------------------------------------------------------------
(* Metrics change during a run *)

\* the notifications of step i of an outcome
StepNotifs(play, i) ==
    LET step == play.cascades[i]
        started == [type |-> "game:cascade:step", playId |-> play.playId,
                    stepIndex |-> i, totalSteps |-> Len(play.cascades)]
    IN  IF play.playId = "" THEN <<>>
        ELSE IF step.bonus
        THEN <<started, [type |-> "game:bonus:triggered", playId |-> play.playId,
                         bonusData |-> step.bonusData]>>
        ELSE IF step.winStep > 0
        THEN <<started, [type |-> "game:win:increment", playId |-> play.playId,
                         amount |-> step.winStep]>>
        ELSE <<started>>

RECURSIVE NotifsOfSteps(_, _)
NotifsOfSteps(play, n) ==
    IF n = 0 THEN <<>> ELSE NotifsOfSteps(play, n - 1) \o StepNotifs(play, n)

\* the notifications a run has emitted when its sequencer is where the
\* pending callback says
NotifsAtCursor ==
    IF RunOver THEN ExpectedFrom(Cur, 1)
    ELSE IF StepsStarted = 0 THEN <<>>
    ELSE IF ChainTimer.kind \in {"startRemoval", "bonusDone"}
    THEN NotifsOfSteps(Cur, StepsStarted - 1) \o Take(StepNotifs(Cur, StepsStarted), 1)
    ELSE NotifsOfSteps(Cur, StepsStarted)

\* a metrics change is being handled while a run is active
ResizeInRun == container' # container /\ currentPlay # <<>> /\ ChainIdxs(timers) # {}

\* C21: a metrics change during an active run leaves the pending callbacks
\* (and with them the step cursor), the current play, the accumulated win
\* and the grid unchanged and emits nothing; the notifications emitted so far
\* are at every moment the ones the outcome fixes for the sequencer's cursor,
\* so the run goes on to emit the same notifications as without the resize.
C21_ResizeIsVisualOnly ==
    /\ [][ResizeInRun =>
             /\ timers' = timers
             /\ currentPlay' = currentPlay
             /\ accumulatedWin' = accumulatedWin
             /\ grid' = grid
             /\ log' = log]_vars
    /\ [](currentPlay # <<>> => Events(log) = NotifsAtCursor)

\* a metrics change was handled during the rodillo intro of a run (the board
\* was redrawn, the intro's own handles are gone): the intro's callbacks and
\* the first step's callback are still pending, the last column has already
\* spun, nothing is notified yet
C21_Witness ==
    /\ currentPlay # <<>>
    /\ reel.active
    /\ ~reel.live
    /\ reel.steps >= 1
    /\ ChainIdxs(timers) # {}
    /\ ChainTimer.kind = "runStep"
    /\ ChainTimer.idx = 0
    /\ Len(timers) >= 2
    /\ log = <<>>

----------------------------------------------------------------------------
(* The refill of animateStep as a function of the handle map, the step and *)
(* the fill mode.  A handle of the map before the refill is named after    *)
(* the coordinate it had; a handle the refill creates is the symbol it     *)
(* carries.                                                                *)

\* boardSize during the refill
RefillSize == [rows |-> 3, cols |-> 2]

OldHandles == << <<"h00", "h01">>, <<"h10", "h11">>, <<"h20", "h21">> >>

\* handle maps before the refill: complete, or with the key (0, 0) missing
RefillMaps ==
    {[k \in dom |-> OldHandles[k[1] + 1][k[2] + 1]] :
        dom \in {Coords(RefillSize.rows, RefillSize.cols), Coords(RefillSize.rows, RefillSize.cols) \ {<<0, 0>>}}}

RefillRemoveCells ==
    {<<>>,
     <<Cell(0, 0)>>, <<Cell(1, 0)>>, <<Cell(2, 0)>>,
     <<Cell(0, 0), Cell(1, 0)>>, <<Cell(2, 0), Cell(1, 0)>>, <<Cell(0, 0), Cell(2, 0)>>,
     <<Cell(0, 0), Cell(1, 0), Cell(2, 0)>>,
     <<Cell(1, 0), Cell(1, 1)>>, <<Cell(0, 1), Cell(2, 0)>>, <<Cell(1, 0), Cell(1, 0)>>}

RefillDropIns ==
    {<<>>} \cup
    {<< [col |-> 0, symbols |-> s0], [col |-> 1, symbols |-> s1] >> :
        s0 \in {<<>>, <<"X">>, <<"X", "Y">>, <<"X", "Y", "Z">>},
        s1 \in {<<>>, <<"P">>}}

RefillGridAfter == << <<"g00", "g01">>, <<"g10", "g11">>, <<"g20", "g21">> >>

RefillInit ==
    /\ SceneAtRest
    /\ page = <<>>
    /\ client = <<>>
    /\ effects = <<>>
    /\ measured = <<>>
    /\ highlight = <<>>
    /\ money = <<>>
    /\ MachineInit
    /\ BusInit
    /\ \E mode \in FillModes, cm \in RefillMaps,
          cells \in RefillRemoveCells, dropIn \in RefillDropIns :
          refill = [mode |-> mode,
                    before |-> cm,
                    step |-> [removeCells |-> cells, dropIn |-> dropIn, winStep |-> 0,
                              gridAfter |-> <<RefillGridAfter>>, bonus |-> FALSE,
                              bonusData |-> <<>>],
                    called |-> FALSE,
                    grid |-> <<>>,
                    after |-> <<>>,
                    destroyed |-> {},
                    duration |-> 0]

\* mutant: every mode but "cascade" takes the in-place path
useReplaceAnimationNotCascade(mode) == mode # "cascade"

\* the dispatch of the refill: getFillMode() === "replace"
useReplaceAnimation(mode) == mode = "replace"

\* the delayed mutation of animateStep, from the fill-mode branch on
Refill ==
    /\ ~refill.called
    /\ LET inPlace == useReplaceAnimation(refill.mode)
           g == normalizeGrid(refill.step.gridAfter[1], RefillSize.rows, RefillSize.cols)
           removed == removeSetOf(refill.step)
           newMap == IF inPlace
                     THEN replaceRefill(refill.before, g, removed, RefillSize.rows, RefillSize.cols)
                     ELSE gravityRefill(refill.before, refill.step, removed,
                                        RefillSize.rows, RefillSize.cols)
       IN  refill' = [refill EXCEPT
                        !.called = TRUE,
                        !.grid = g,
                        !.after = newMap,
                        !.destroyed = IF inPlace
                                      THEN replaceDestroyed(refill.before, newMap)
                                      ELSE gravityDestroyed(refill.before, removed),
                        !.duration = IF inPlace THEN 280 + 120 ELSE 480 + 120]
    /\ UNCHANGED <<sceneVars, page, client, effects, measured, highlight, money, machineVars, busVars>>

RefillNext == Refill

RefillSpec == RefillInit /\ [][RefillNext]_vars

\* the coordinates named by the step's removeCells
RefillRemoved ==
    {<<refill.step.removeCells[i].row, refill.step.removeCells[i].col>> :
        i \in 1..Len(refill.step.removeCells)}

RefillCoords == {<<r, c>> : r \in 0..2, c \in 0..1}

\* C22: replace refill: a coordinate not in removeCells that had a handle
\* keeps that very handle, which is not destroyed; at a coordinate in
\* removeCells the old handle is destroyed and a new handle carrying
\* gridAfter's symbol of that coordinate is mapped; no handle is found under
\* another coordinate than before.
C22_ReplaceInPlace ==
    (refill.called /\ refill.mode = "replace") =>
        /\ DOMAIN refill.after = RefillCoords
        /\ \A k \in RefillCoords :
              /\ (k \notin RefillRemoved /\ k \in DOMAIN refill.before) =>
                    /\ refill.after[k] = refill.before[k]
                    /\ refill.before[k] \notin refill.destroyed
              /\ k \in RefillRemoved =>
                    /\ refill.after[k] = RefillGridAfter[k[1] + 1][k[2] + 1]
                    /\ k \in DOMAIN refill.before => refill.before[k] \in refill.destroyed
        /\ \A k \in DOMAIN refill.before, j \in RefillCoords :
              refill.after[j] = refill.before[k] => j = k

\* replace refill of a complete board with (0, 0) and (2, 0) removed
C22_Witness ==
    /\ refill.called
    /\ refill.mode = "replace"
    /\ DOMAIN refill.before = RefillCoords
    /\ RefillRemoved = {<<0, 0>>, <<2, 0>>}
    /\ refill.after = [k \in RefillCoords |->
                          IF k = <<0, 0>> THEN "g00" ELSE IF k = <<2, 0>> THEN "g20"
                          ELSE refill.before[k]]
    /\ refill.destroyed = {"h00", "h20"}

\* the handles of column c that the step does not remove, top row first
RECURSIVE SurvivorsFrom(_, _)
SurvivorsFrom(c, row) ==
    IF row > 2 THEN <<>>
    ELSE (IF <<row, c>> \in DOMAIN refill.before /\ <<row, c>> \notin RefillRemoved
          THEN <<refill.before[<<row, c>>]>> ELSE <<>>)
         \o SurvivorsFrom(c, row + 1)

\* the symbols of the step's dropIn entry for column c
RefillDropSymbols(c) ==
    IF \E i \in 1..Len(refill.step.dropIn) : refill.step.dropIn[i].col = c
    THEN refill.step.dropIn[CHOOSE i \in 1..Len(refill.step.dropIn) :
                                refill.step.dropIn[i].col = c].symbols
    ELSE <<>>

\* C23: cascade refill, column by column: the handles that are not removed
\* end in the bottom rows in their top-to-bottom order; every freed row above
\* them holds a new handle carrying a symbol of the column's dropIn, the
\* first symbol in the top row and the last one in the lowest free row; the
\* handles of removed cells are destroyed and no other.
C23_GravityPerColumn ==
    (refill.called /\ refill.mode = "cascade") =>
        /\ DOMAIN refill.after = RefillCoords
        /\ \A c \in 0..1 :
              LET survivors == SurvivorsFrom(c, 0)
                  free == 3 - Len(survivors)
              IN  /\ \A i \in 1..Len(survivors) :
                        refill.after[<<free + i - 1, c>>] = survivors[i]
                  /\ \A i \in 1..free :
                        /\ i <= Len(RefillDropSymbols(c))
                        /\ refill.after[<<i - 1, c>>] = RefillDropSymbols(c)[i]
                  /\ free >= 1 =>
                        refill.after[<<free - 1, c>>] =
                            RefillDropSymbols(c)[Len(RefillDropSymbols(c))]
        /\ refill.destroyed = {refill.before[k] : k \in DOMAIN refill.before \cap RefillRemoved}

----------------------------------------------------------------------------
(* Handles after a refill *)

\* the refill of the latest match step is over: the sequencer waits for the
\* next step, or the run is over
AfterRefill ==
    /\ currentPlay # <<>>
    /\ ChainIdxs(timers) = {} \/ ChainTimer.kind = "runStep"
    /\ LastMatch(Cur.cascades, StepsApplied) > 0

\* C24: once the refill of a match step of a valid outcome is over, in every
\* fill mode every board coordinate has a handle and the symbol that handle
\* carries is gridAfter's symbol at that coordinate.
C24_HandlesMatchGridAfter ==
    (AfterRefill /\ ValidPlay(Cur)) =>
        \A k \in Coords(boardSize.rows, boardSize.cols) :
            /\ k \in DOMAIN cellMap
            /\ cellMap[k] =
                   Cur.cascades[LastMatch(Cur.cascades, StepsApplied)].gridAfter[1][k[1] + 1][k[2] + 1]

\* C25: a match step whose removeCells is empty changes no handle, in every
\* fill mode: the handle map after the refill is the map before it (the same
\* handles under the same coordinates, none created) and no handle is
\* destroyed.  Stated for a handle map that covers the board.
C25_EmptyRemovalIsNoOp ==
    (refill.called /\ refill.step.removeCells = <<>> /\ DOMAIN refill.before = RefillCoords) =>
        /\ refill.after = refill.before
        /\ refill.destroyed = {}

----------------------------------------------------------------------------
(* Intro and first step *)

\* renderPlay has just run: nothing has fired since
JustRendered == currentPlay # <<>> /\ prev.phase # "none"

IntroKinds == {"spin", "dropCol", "colDropped", "stopCol", "spinRemove"}

\* the callback that starts the first step of the current run is firing
FirstStepStarts ==
    /\ Due("runStep")
    /\ DueTimer.idx = 0
    /\ ~DueTimer.stale
    /\ prev' = NoPrev
    /\ timers' # timers

\* C26: the first step starts only after the intro: when renderPlay returns,
\* in every fill mode the callback of step 0 is due later than the end of
\* every entrance tween, and in cascade the drops that end last are those of
\* the last column, ending at (cols - 1) * 120 + 380, which is the returned
\* duration (the callback is due 120 ms after it); in rodillo, when the
\* callback of step 0 fires every column has stopped and the timer set for
\* the end of the last column's settle has fired.
C26_IntroBeforeFirstStep ==
    /\ [](JustRendered =>
            /\ ChainIdxs(timers) # {}
            /\ ChainTimer.kind = "runStep"
            /\ ChainTimer.idx = 0
            /\ \A tw \in introTweens(fillMode, boardSize.rows, boardSize.cols) :
                  tw.delay + tw.duration < ChainTimer.delay
            /\ fillMode = "cascade" =>
                  /\ \A tw \in introTweens(fillMode, boardSize.rows, boardSize.cols) :
                        /\ tw.delay + tw.duration <= (boardSize.cols - 1) * 120 + 380
                        /\ tw.col = boardSize.cols - 1 =>
                              tw.delay + tw.duration = (boardSize.cols - 1) * 120 + 380
                  /\ ChainTimer.delay = (boardSize.cols - 1) * 120 + 380 + 120)
    /\ [][FirstStepStarts =>
             /\ ~reel.active
             /\ \A i \in 1..Len(timers) :
                   timers[i].kind \in IntroKinds => timers[i].stale]_vars

\* rodillo: the callback of step 0 is the only callback left of the run and
\* its first step notification has been emitted
C26_Witness ==
    /\ fillMode = "rodillo"
    /\ currentPlay # <<>>
    /\ boardSize.cols = 2
    /\ Len(log) = 1
    /\ IsStep(log[1].ev)
    /\ log[1].ev.stepIndex = 1
    /\ ~reel.active

----------------------------------------------------------------------------
(* C27: the duration of the bonus highlight *)

\* the step whose runStep callback is due
DueStep == PlayOf(DueTimer.play[1]).cascades[DueTimer.idx + 1]

\* this step of the clock starts a bonus step
BonusStepStarts ==
    /\ Due("runStep")
    /\ prev' = NoPrev
    /\ timers' # timers
    /\ DueTimer.idx < Len(PlayOf(DueTimer.play[1]).cascades)
    /\ DueStep.bonus

\* the cells the starting bonus step highlights
DueTargets ==
    highlightTargets(stepTriggerCount(DueStep), stepTriggerCells(DueStep), grid, boardSize)

\* the highlight phase of the bonus step that has just started completes
\* after d ms: at once when d = 0 (bonus notification made, the pause before
\* the next step running), else by the callback due in d ms
HighlightCompletesAfter(d) ==
    LET t == timers'[Len(timers')]
    IN  IF d = 0
        THEN /\ t.kind = "runStep"
             /\ t.idx = DueTimer.idx + 1
             /\ Len(log') = Len(log) + 2
             /\ log'[Len(log')].ev.type = "game:bonus:triggered"
        ELSE /\ t.kind = "bonusDone"
             /\ t.idx = DueTimer.idx
             /\ t.delay = d
             /\ Len(log') = Len(log) + 1

\* C27 (as stated): the time between the start of a bonus step and the
\* completion of its highlight phase is one constant, 1280 ms, for every
\* bonus step, however many cells are highlighted.
C27_FixedHighlightDuration ==
    [][BonusStepStarts => HighlightCompletesAfter(1280)]_vars

\* C27 (amended): the time between the start of a bonus step and the
\* completion of its highlight phase is 1280 ms plus 120 ms for every
\* highlighted cell after the first, and zero when no cell is highlighted.
C27_HighlightDurationByCells ==
    [][BonusStepStarts =>
          HighlightCompletesAfter(IF Len(DueTargets) = 0 THEN 0
                                  ELSE 1280 + (Len(DueTargets) - 1) * 120)]_vars

\* a bonus step that lit two cells has started: its highlight ends 1400 ms later
C27_Witness ==
    /\ timers # <<>>
    /\ timers[Len(timers)].kind = "bonusDone"
    /\ timers[Len(timers)].delay = 1400
    /\ ~timers[Len(timers)].stale
    /\ prev = NoPrev

----------------------------------------------------------------------------
(* C28: the pause between steps *)

\* this step of the clock completes the phase chain of a step: onComplete of
\* a match step's refill, the end of a bonus highlight, or a bonus step that
\* highlights nothing
ChainCompletes ==
    /\ prev' = NoPrev
    /\ timers' # timers
    /\ \/ Due("stepDone")
       \/ Due("bonusDone")
       \/ BonusStepStarts /\ Len(DueTargets) = 0

\* the step whose chain completes
CompletedIdx == DueTimer.idx

\* a step with idx >= 1 starts, or the completed notification of an outcome
\* with steps is made
NextStepRuns ==
    /\ prev' = NoPrev
    /\ timers' # timers
    /\ \/ /\ Len(log') > Len(log)
          /\ log'[Len(log)+ 1].ev.type = "game:cascade:step"
          /\ log'[Len(log) + 1].ev.stepIndex >= 2
       \/ /\ Len(log') > Len(log)
          /\ log'[Len(log) + 1].ev.type = "game:cascade:completed"
          /\ log'[Len(log) + 1].ev.totalSteps >= 1

\* C28: when the phase chain of a step completes (match or bonus, in any
\* fill mode), the start of the next step, or the completed notification
\* after the last step, is scheduled exactly 250 ms later and nothing else is
\* scheduled; a later step starts, and the completed notification after the
\* last step is made, only by such a scheduled call when its time has come.
C28_PauseBetweenSteps ==
    /\ [][ChainCompletes =>
             /\ Len(timers') = Len(timers)
             /\ timers'[Len(timers')].kind = "runStep"
             /\ timers'[Len(timers')].delay = 250
             /\ timers'[Len(timers')].idx = CompletedIdx + 1
             /\ timers'[Len(timers')].play = DueTimer.play]_vars
    /\ [][NextStepRuns => Due("runStep") /\ DueTimer.idx >= 1]_vars
    /\ [](\A i \in 1..Len(timers) :
             timers[i].kind = "runStep" /\ timers[i].idx >= 1 => timers[i].delay <= 250)

\* in cascade mode the chain of the last step of an outcome with a bonus step
\* has just completed: the completed notification is due in 250 ms
C28_Witness ==
    /\ fillMode = "cascade"
    /\ prev = NoPrev
    /\ currentPlay # <<>>
    /\ timers # <<>>
    /\ timers[Len(timers)].kind = "runStep"
    /\ timers[Len(timers)].delay = 250
    /\ ~timers[Len(timers)].stale
    /\ timers[Len(timers)].idx = Len(PlayOf(currentPlay[1]).cascades)
    /\ \E i \in 1..Len(PlayOf(currentPlay[1]).cascades) : PlayOf(currentPlay[1]).cascades[i].bonus
    /\ \E i \in 1..Len(PlayOf(currentPlay[1]).cascades) : ~PlayOf(currentPlay[1]).cascades[i].bonus

----------------------------------------------------------------------------
(* C29: the fill mode of a run *)

\* ts holds the callbacks of a run that renderPlay has just started under
\* fill mode fm, and nothing else
FreshRun(ts, fm) ==
    /\ \E i \in 1..Len(ts) : ts[i].kind = "runStep"
    /\ \A i \in 1..Len(ts) :
          /\ ~ts[i].stale
          /\ ts[i].kind \in ChainKinds => ts[i].kind = "runStep" /\ ts[i].idx = 0
          /\ ts[i].kind \in IntroKinds => fm = "rodillo"

\* C29: the fill mode is selected once per run: a change of the configured
\* fill mode abandons every pending phase of the run and restarts the run of
\* the current outcome from its intro under the new value (with no outcome
\* it leaves no phase pending), no phase of a run changes the value, and the
\* callbacks of the rodillo intro are pending only while the value is
\* rodillo; so the intro and every refill of one run read the same value.
C29_FillModeOncePerRun ==
    /\ [][fillMode' # fillMode =>
             /\ prev' # NoPrev
             /\ log' = <<>>
             /\ accumulatedWin' = 0
             /\ currentPlay' = currentPlay
             /\ IF currentPlay # <<>>
                THEN /\ FreshRun(timers', fillMode')
                     /\ reel'.active <=> fillMode' = "rodillo"
                ELSE timers' = <<>> /\ ~reel'.active]_vars
    /\ [][timers' # timers /\ prev' = NoPrev => fillMode' = fillMode]_vars
    /\ []((reel.active \/ \E i \in 1..Len(timers) : timers[i].kind \in IntroKinds)
              => fillMode = "rodillo")

\* a run has just been restarted in replace mode while the refill of one of
\* its steps was pending
C29_Witness ==
    /\ fillMode = "replace"
    /\ currentPlay # <<>>
    /\ prev.phase = "refill"
    /\ FreshRun(timers, fillMode)
    /\ log = <<>>

----------------------------------------------------------------------------
(* Home (src/src/app/page.tsx): the transitions of the game state machine  *)

MaxPageTransitions == 6

\* pack sizes offered (cfg.packSizes), kept small
PagePackSizes == {1, 2}

\* useRef(createStateMachine("LOADING")), useState<GameState>("LOADING"),
\* no config, no request in flight, no timeout, no pack; board: what the
\* board does with the play it was given last ("idle": no play yet,
\* "running": renderPlay started its sequence, "completed": runStep emitted
\* game:cascade:completed)
PageInit ==
    /\ SceneAtRest
    /\ refill = <<>>
    /\ measured = <<>>
    /\ highlight = <<>>
    /\ money = <<>>
    /\ MachineInit
    /\ BusInit
    /\ client = <<>>
    /\ effects = <<>>
    /\ page = [state |-> "LOADING", config |-> FALSE,
               pending |-> [config |-> 0, ticket |-> 0, pack |-> 0],
               timeouts |-> 0, pack |-> <<>>, board |-> "idle", trace |-> <<>>]

PageRest == <<sceneVars, refill, client, effects, measured, highlight, money, machineVars, busVars>>

\* transition(next): machineRef.current.transition(next); setState(next)
HomeTransition(pg, next) ==
    [pg EXCEPT !.state = next, !.trace = Append(@, next)]

CanTransition == Len(page.trace) < MaxPageTransitions

\* refreshConfig up to its await (mount effect, retry button)
refreshConfig ==
    /\ CanTransition
    /\ page' = [HomeTransition(page, "LOADING") EXCEPT !.pending.config = @ + 1]
    /\ UNCHANGED PageRest

\* refreshConfig after loadGameConfig settled: setConfig on success, MENU either way
ConfigSettled(ok) ==
    /\ CanTransition
    /\ page.pending.config > 0
    /\ page' = [HomeTransition(page, "MENU") EXCEPT
                   !.pending.config = @ - 1,
                   !.config = IF ok THEN TRUE ELSE @]
    /\ UNCHANGED PageRest

\* handlePlaySingle up to its await
handlePlaySingle ==
    /\ CanTransition
    /\ page.config
    /\ page' = [HomeTransition(page, "LOADING") EXCEPT !.pending.ticket = @ + 1]
    /\ UNCHANGED PageRest

\* handlePlaySingle after playTicket settled: the play goes to the board
\* (setPlay, renderPlay), REVEAL and the END_TICKET timeout on success, MENU
\* on failure
TicketSettled(ok) ==
    /\ CanTransition
    /\ page.pending.ticket > 0
    /\ page' = IF ok
               THEN [HomeTransition(page, "REVEAL") EXCEPT
                        !.pending.ticket = @ - 1,
                        !.pack = <<>>,
                        !.board = "running",
                        !.timeouts = @ + 1]
               ELSE [HomeTransition(page, "MENU") EXCEPT !.pending.ticket = @ - 1]
    /\ UNCHANGED PageRest

\* setTimeout(() => transition("END_TICKET"), cascadeDuration)
EndTicketTimeout ==
    /\ CanTransition
    /\ page.timeouts > 0
    /\ page' = [HomeTransition(page, "END_TICKET") EXCEPT !.timeouts = @ - 1]
    /\ UNCHANGED PageRest

\* runStep(idx) with idx >= play.cascades.length: the board emits
\* game:cascade:completed, which the page does not listen to
CascadeCompleted ==
    /\ page.board = "running"
    /\ page' = [page EXCEPT !.board = "completed"]
    /\ UNCHANGED PageRest

\* handlePlayPack up to its await: the next ticket of the pack is revealed,
\* or a pack is requested; a fully revealed pack makes it return at once
handlePlayPack ==
    /\ CanTransition
    /\ page.config
    /\ IF page.pack # <<>>
       THEN /\ page.pack[1].revealed < page.pack[1].total
            /\ page' = [HomeTransition(page, "PACK_LIST") EXCEPT
                           !.pack = <<[@[1] EXCEPT !.revealed = Min(@ + 1, page.pack[1].total)]>>]
       ELSE page' = [HomeTransition(page, "LOADING") EXCEPT !.pending.pack = @ + 1]
    /\ UNCHANGED PageRest

\* handlePlayPack after playPack settled
PackSettled(ok, size) ==
    /\ CanTransition
    /\ page.pending.pack > 0
    /\ page' = IF ok
               THEN [HomeTransition(page, "PACK_LIST") EXCEPT
                        !.pending.pack = @ - 1,
                        !.pack = <<[total |-> size, revealed |-> 1]>>]
               ELSE [HomeTransition(page, "MENU") EXCEPT !.pending.pack = @ - 1]
    /\ UNCHANGED PageRest

\* the effect on [bet, mode, packSize, packLevel]: setPackOutcome(undefined)
ResetPack ==
    /\ page.pack # <<>>
    /\ page' = [page EXCEPT !.pack = <<>>]
    /\ UNCHANGED PageRest

PageNext ==
    \/ refreshConfig
    \/ \E ok \in BOOLEAN : ConfigSettled(ok)
    \/ handlePlaySingle
    \/ \E ok \in BOOLEAN : TicketSettled(ok)
    \/ EndTicketTimeout
    \/ CascadeCompleted
    \/ handlePlayPack
    \/ \E ok \in BOOLEAN, size \in PagePackSizes : PackSettled(ok, size)
    \/ ResetPack

PageSpec == PageInit /\ [][PageNext]_vars

\* the states the page has been in, in order
PageStates == <<"LOADING">> \o page.trace

\* the documented chain; the last three states share the last place
ChainPlace(s) ==
    CASE s = "MENU" -> 1
      [] s = "LOADING" -> 2
      [] s = "READY" -> 3
      [] s = "REVEAL" -> 4
      [] s = "CASCADE_LOOP" -> 5
      [] s = "END_TICKET" -> 6
      [] OTHER -> 7

\* C30: the game state machine follows MENU -> LOADING -> READY -> REVEAL ->
\* CASCADE_LOOP -> END_TICKET -> PACK_LIST / REPLAY / SUMMARY: the page
\* enters REVEAL only from READY and END_TICKET only from CASCADE_LOOP, and
\* no transition forward along the chain skips a state of it.
C30_StateChainOrder ==
    \A i \in 2..Len(PageStates) :
        /\ PageStates[i] = "REVEAL" => PageStates[i - 1] = "READY"
        /\ PageStates[i] = "END_TICKET" => PageStates[i - 1] = "CASCADE_LOOP"
        /\ ChainPlace(PageStates[i]) > ChainPlace(PageStates[i - 1])
              => ChainPlace(PageStates[i]) = ChainPlace(PageStates[i - 1]) + 1

\* C35: the page enters END_TICKET only after the board has emitted the
\* completed notification for the play received last: no END_TICKET timer,
\* of the current play or of an earlier one, moves the state while a play is
\* being requested or its cascade sequence is running.
C35_EndTicketAfterCompleted ==
    [][(/\ Len(page'.trace) = Len(page.trace) + 1
        /\ page'.trace[Len(page'.trace)] = "END_TICKET")
          => (page.board = "completed" /\ page.pending.ticket = 0)]_vars

----------------------------------------------------------------------------
(* api/client.ts: requests over one WebSocket (src/src/api/client.ts)       *)

MaxRequests == 2
MaxSockets == 2

ClientRest == <<sceneVars, refill, page, effects, measured, highlight, money, machineVars, busVars>>

\* the data of a message event: text that is not JSON, the JSON text null, or
\* a JSON object with type, requestId (0: absent or empty), ok and error
SocketMessages ==
    {[kind |-> "garbage"], [kind |-> "null"]}
    \cup [kind : {"object"}, type : {"event"}, requestId : {1}, ok : {TRUE}, error : {<<>>}]
    \cup [kind : {"object"}, type : {"response"}, requestId : 0..MaxRequests,
          ok : {TRUE}, error : {<<>>}]
    \cup [kind : {"object"}, type : {"response"}, requestId : 0..MaxRequests,
          ok : {FALSE}, error : {<<>>, <<"denied">>}]

\* pending = new Map(); socket = null; connecting = null.  urlOk: whether
\* resolveWsUrl() and new WebSocket(url) return in this environment; last:
\* history, the call or event handled last
ClientInit ==
    /\ SceneAtRest
    /\ refill = <<>>
    /\ page = <<>>
    /\ effects = <<>>
    /\ measured = <<>>
    /\ highlight = <<>>
    /\ money = <<>>
    /\ MachineInit
    /\ BusInit
    /\ \E urlOk \in BOOLEAN :
          client = [urlOk |-> urlOk, pending |-> {}, socket |-> 0, connecting |-> 0,
                    sockets |-> <<>>, promises |-> <<>>, requests |-> <<>>,
                    last |-> [op |-> "none"]]

\* resolve / reject of a request's promise is called
Settle(r, by, ok, value) ==
    [r EXCEPT !.timer = FALSE,
              !.calls = Append(@, [by |-> by, ok |-> ok, value |-> value])]

\* mutant: the response leaves the request's timeout running
handleSocketMessageKeepsTimeout(c, msg) ==
    IF msg.kind # "object" THEN c
    ELSE IF msg.type # "response" \/ msg.requestId = 0 THEN c
    ELSE IF msg.requestId \notin c.pending THEN c
    ELSE [c EXCEPT
            !.pending = @ \ {msg.requestId},
            !.requests[msg.requestId] =
                [Settle(@, "response", msg.ok, "data") EXCEPT !.timer = TRUE]]

\* mutant: a response settles the oldest pending request, whatever its requestId
handleSocketMessageOldest(c, msg) ==
    IF msg.kind # "object" THEN c
    ELSE IF msg.type # "response" \/ msg.requestId = 0 THEN c
    ELSE IF c.pending = {} THEN c
    ELSE LET id == CHOOSE i \in c.pending : \A j \in c.pending : i <= j
         IN  [c EXCEPT
                !.pending = @ \ {id},
                !.requests[id] =
                    IF msg.ok
                    THEN Settle(@, "response", TRUE, "data")
                    ELSE Settle(@, "response", FALSE,
                                IF msg.error = <<>> THEN "Unknown error" ELSE msg.error[1])]

\* handleSocketMessage(event): JSON.parse fails on garbage; reading
\* payload.type of null throws in the listener
handleSocketMessage(c, msg) ==
    IF msg.kind # "object" THEN c
    ELSE IF msg.type # "response" \/ msg.requestId = 0 THEN c
    ELSE IF msg.requestId \notin c.pending THEN c
    ELSE [c EXCEPT
            !.pending = @ \ {msg.requestId},
            !.requests[msg.requestId] =
                IF msg.ok
                THEN Settle(@, "response", TRUE, "data")
                ELSE Settle(@, "response", FALSE,
                            IF msg.error = <<>> THEN "Unknown error" ELSE msg.error[1])]

\* rejectAllPending(reason)
rejectAllPending(c, reason) ==
    [c EXCEPT
        !.pending = {},
        !.requests = [id \in DOMAIN @ |->
                         IF id \in c.pending
                         THEN Settle(@[id], "close", FALSE, reason) ELSE @[id]]]

\* a socket of the client is in readyState OPEN
IsOpen(c, ws) == ws # 0 /\ c.sockets[ws].state = "OPEN"

\* the promise returned by the connection attempt on socket ws
PromiseOf(c, ws) == CHOOSE p \in 1..Len(c.promises) : c.promises[p].ws = ws

\* the continuation of wsRequest after await ensureSocket(): the request
\* enters pending, its timeout is set and the message is sent on ws
Send(r, ws) == [r EXCEPT !.phase = "sent", !.ws = ws, !.wait = 0, !.timer = TRUE]

\* the promise of an attempt settles: every wsRequest awaiting it goes on
Resume(c, p, ok, ws, reason) ==
    LET waiting == {id \in 1..Len(c.requests) :
                       c.requests[id].phase = "connecting" /\ c.requests[id].wait = p}
    IN  [c EXCEPT
            !.promises[p].state = IF ok THEN "resolved" ELSE "rejected",
            !.pending = IF ok THEN @ \cup waiting ELSE @,
            !.requests = [id \in DOMAIN @ |->
                             IF id \notin waiting THEN @[id]
                             ELSE IF ok THEN Send(@[id], ws)
                             ELSE [Settle(@[id], "connect", FALSE, reason) EXCEPT
                                      !.phase = "failed"]]]

\* mutant: a call made while a socket is not open always opens a new one
ensureSocketAlwaysNew(c) ==
    IF IsOpen(c, c.socket)
    THEN [c |-> c, socket |-> c.socket, promise |-> 0]
    ELSE [c |-> [c EXCEPT
                    !.sockets = Append(@, [state |-> "CONNECTING", opened |-> FALSE,
                                           listeners |-> {"open", "error", "close"}]),
                    !.socket = Len(c.sockets) + 1,
                    !.promises = Append(@, [state |-> "pending", ws |-> Len(c.sockets) + 1]),
                    !.connecting = Len(c.promises) + 1],
          socket |-> 0, promise |-> Len(c.promises) + 1]

\* ensureSocket(): the client afterwards and what the call returns, the
\* open socket or a promise; an executor that throws leaves connecting set
\* to the rejected promise
ensureSocket(c) ==
    IF IsOpen(c, c.socket)
    THEN [c |-> c, socket |-> c.socket, promise |-> 0]
    ELSE IF c.connecting # 0
    THEN [c |-> c, socket |-> 0, promise |-> c.connecting]
    ELSE IF c.urlOk
    THEN [c |-> [c EXCEPT
                    !.sockets = Append(@, [state |-> "CONNECTING", opened |-> FALSE,
                                           listeners |-> {"open", "error", "close"}]),
                    !.socket = Len(c.sockets) + 1,
                    !.promises = Append(@, [state |-> "pending", ws |-> Len(c.sockets) + 1]),
                    !.connecting = Len(c.promises) + 1],
          socket |-> 0, promise |-> Len(c.promises) + 1]
    ELSE [c |-> [c EXCEPT
                    !.promises = Append(@, [state |-> "rejected", ws |-> 0]),
                    !.connecting = Len(c.promises) + 1],
          socket |-> 0, promise |-> Len(c.promises) + 1]

\* wsRequest(type, payload): the requestId is fresh
wsRequest ==
    /\ Len(client.requests) < MaxRequests
    /\ LET e == ensureSocket(client)
           id == Len(client.requests) + 1
           r0 == [phase |-> "connecting", ws |-> 0, wait |-> e.promise, timer |-> FALSE,
                  calls |-> <<>>]
           c0 == [e.c EXCEPT !.last = [op |-> "wsRequest"]]
       IN  /\ Len(e.c.sockets) <= MaxSockets
           /\ client' =
                IF e.socket # 0
                THEN [c0 EXCEPT !.requests = Append(@, Send(r0, e.socket)),
                                 !.pending = @ \cup {id}]
                ELSE IF e.c.promises[e.promise].state = "rejected"
                THEN [c0 EXCEPT !.requests =
                         Append(@, [Settle(r0, "connect", FALSE, "no socket") EXCEPT
                                       !.phase = "failed"])]
                ELSE [c0 EXCEPT !.requests = Append(@, r0)]
    /\ UNCHANGED ClientRest

\* onOpen
onOpen(c, ws) ==
    Resume([c EXCEPT !.sockets[ws].listeners = {"message", "close"},
                     !.sockets[ws].opened = TRUE,
                     !.connecting = 0],
           PromiseOf(c, ws), TRUE, ws, "")

\* onError
onError(c, ws) ==
    Resume([c EXCEPT !.sockets[ws].listeners = {}, !.connecting = 0],
           PromiseOf(c, ws), FALSE, ws, "WebSocket connection failed.")

\* onClose
onClose(c, ws) ==
    LET c1 == IF c.socket = ws THEN [c EXCEPT !.socket = 0] ELSE c
        c2 == rejectAllPending(c1, "WebSocket connection closed.")
    IN  IF ~c.sockets[ws].opened
        THEN Resume([c2 EXCEPT !.connecting = 0], PromiseOf(c, ws), FALSE, ws,
                    "WebSocket connection closed before opening.")
        ELSE c2

\* the connection of socket ws is established: open event
SocketOpens(ws) ==
    /\ client.sockets[ws].state = "CONNECTING"
    /\ client' = onOpen([client EXCEPT !.sockets[ws].state = "OPEN",
                                        !.last = [op |-> "open", ws |-> ws]], ws)
    /\ UNCHANGED ClientRest

\* the connection attempt fails: error event, then a close event that finds
\* the listeners removed
SocketFails(ws) ==
    /\ client.sockets[ws].state = "CONNECTING"
    /\ client' = onError([client EXCEPT !.sockets[ws].state = "CLOSED",
                                         !.last = [op |-> "error", ws |-> ws]], ws)
    /\ UNCHANGED ClientRest

\* the peer starts the closing handshake: readyState CLOSING, no event yet
SocketStartsClosing(ws) ==
    /\ client.sockets[ws].state = "OPEN"
    /\ client' = [client EXCEPT !.sockets[ws].state = "CLOSING",
                                !.last = [op |-> "closing", ws |-> ws]]
    /\ UNCHANGED ClientRest

\* the connection of an opened socket is closed: close event (a socket that
\* never opened reports error first, see SocketFails)
SocketCloses(ws) ==
    /\ client.sockets[ws].state \in {"OPEN", "CLOSING"}
    /\ "close" \in client.sockets[ws].listeners
    /\ client' = onClose([client EXCEPT !.sockets[ws].state = "CLOSED",
                                         !.last = [op |-> "close", ws |-> ws]], ws)
    /\ UNCHANGED ClientRest

\* a message event on socket ws
SocketMessage(ws, msg) ==
    /\ client.sockets[ws].state \in {"OPEN", "CLOSING"}
    /\ "message" \in client.sockets[ws].listeners
    /\ client' = [handleSocketMessage(client, msg) EXCEPT
                     !.last = [op |-> "message", ws |-> ws, msg |-> msg]]
    /\ UNCHANGED ClientRest

\* the timeout callback of wsRequest (after timeoutMs = 15000)
RequestTimeout(id) ==
    /\ id \in 1..Len(client.requests)
    /\ client.requests[id].timer
    /\ client' = [client EXCEPT
                     !.pending = @ \ {id},
                     !.requests[id] = Settle(@, "timeout", FALSE, "WebSocket request timed out."),
                     !.last = [op |-> "timeout", id |-> id]]
    /\ UNCHANGED ClientRest

ClientNext ==
    \/ wsRequest
    \/ \E ws \in 1..Len(client.sockets) : SocketOpens(ws)
    \/ \E ws \in 1..Len(client.sockets) : SocketFails(ws)
    \/ \E ws \in 1..Len(client.sockets) : SocketStartsClosing(ws)
    \/ \E ws \in 1..Len(client.sockets) : SocketCloses(ws)
    \/ \E ws \in 1..Len(client.sockets), msg \in SocketMessages : SocketMessage(ws, msg)
    \/ \E id \in 1..MaxRequests : RequestTimeout(id)

ClientSpec == ClientInit /\ [][ClientNext]_vars

\* a timeout that was set and not cleared fires after its delay
FairClientSpec == ClientSpec /\ \A id \in 1..MaxRequests : WF_vars(RequestTimeout(id))

\* the requests made so far
Requests == 1..Len(client.requests)

\* the request was sent: it entered pending
WasSent(id) == client.requests[id].phase = "sent"

\* the promise of the request has been settled
IsSettled(id) == client.requests[id].calls # <<>>

\* C31: every request sent through wsRequest settles exactly once, by its
\* matching response, its timeout or a socket close: resolve / reject is
\* called at most once; the request is in pending, with its timeout running,
\* exactly from the send until it settles; once settled nothing changes it
\* any more (a late response has no effect); and every pending request
\* eventually leaves pending.
C31_SettlesExactlyOnce ==
    /\ [](\A id \in Requests :
             /\ Len(client.requests[id].calls) <= 1
             /\ id \in client.pending <=> WasSent(id) /\ ~IsSettled(id)
             /\ client.requests[id].timer <=> id \in client.pending
             /\ WasSent(id) /\ IsSettled(id) =>
                   client.requests[id].calls[1].by \in {"response", "timeout", "close"})
    /\ [][\A id \in Requests : IsSettled(id) => client.requests'[id] = client.requests[id]]_vars
    /\ \A id \in 1..MaxRequests :
          [](id \in client.pending =>
                <>(id \in Requests /\ id \notin client.pending /\ IsSettled(id)))

\* two requests were sent; the first settled by its timeout and the second
\* by a socket close, and the response to the first has arrived since
C31_Witness ==
    /\ Len(client.requests) = 2
    /\ client.requests[1].calls =
          <<[by |-> "timeout", ok |-> FALSE, value |-> "WebSocket request timed out."]>>
    /\ IsSettled(2)
    /\ client.requests[2].calls[1].by = "close"
    /\ client.pending = {}
    /\ client.last.op = "message"
    /\ client.last.msg.kind = "object"
    /\ client.last.msg.type = "response"
    /\ client.last.msg.requestId = 1

\* the message the step hands to handleSocketMessage, if it is such a step
MessageHandled == client'.last.op = "message"

\* C32: a received message settles only the pending request whose requestId
\* is the message's requestId, resolving with the data when ok and rejecting
\* with the error message otherwise; a message that is not JSON, is not an
\* object of type "response", has no requestId or names no pending request
\* leaves the pending map and every request unchanged.
C32_Correlation ==
    [][MessageHandled =>
          LET msg == client'.last.msg
          IN  IF /\ msg.kind = "object"
                 /\ msg.type = "response"
                 /\ msg.requestId \in client.pending
              THEN /\ client'.pending = client.pending \ {msg.requestId}
                   /\ \A id \in Requests \ {msg.requestId} :
                         client'.requests[id] = client.requests[id]
                   /\ client'.requests[msg.requestId].calls =
                         <<[by |-> "response", ok |-> msg.ok,
                            value |-> IF msg.ok THEN "data"
                                      ELSE IF msg.error = <<>> THEN "Unknown error"
                                      ELSE msg.error[1]]>>
              ELSE /\ client'.pending = client.pending
                   /\ client'.requests = client.requests]_vars

\* the response to the second of two pending requests has just rejected it
\* with the error of the message, the first is still pending
C32_Witness ==
    /\ client.last.op = "message"
    /\ client.last.msg.kind = "object"
    /\ client.last.msg.requestId = 2
    /\ ~client.last.msg.ok
    /\ client.pending = {1}
    /\ Len(client.requests) >= 2
    /\ client.requests[2].calls = <<[by |-> "response", ok |-> FALSE, value |-> "denied"]>>

\* the sockets whose connection is being opened
Attempts(c) == {ws \in 1..Len(c.sockets) : c.sockets[ws].state = "CONNECTING"}

\* wsRequest, and with it ensureSocket, is called in this step
EnsureSocketCalled ==
    /\ client'.last.op = "wsRequest"
    /\ Len(client'.requests) = Len(client.requests) + 1

\* the request the call creates
NewRequest == client'.requests[Len(client'.requests)]

\* C33: at most one connection attempt is in flight at any time, and an
\* open socket is the current one: a call of ensureSocket made while an
\* attempt is in flight receives the promise of that attempt and creates no
\* socket, a call made while the current socket is open receives that socket
\* and creates none, and a call made when no attempt is in flight and no
\* socket is open (none yet, or the last one failed or closed) creates
\* exactly one new socket and receives the promise of its attempt.
C33_OneAttemptInFlight ==
    /\ [](/\ Cardinality(Attempts(client)) <= 1
          /\ \A ws \in 1..Len(client.sockets) :
                client.sockets[ws].state \in {"CONNECTING", "OPEN"} => client.socket = ws
          /\ \A ws \in Attempts(client) :
                /\ client.connecting # 0
                /\ client.promises[client.connecting] = [state |-> "pending", ws |-> ws])
    /\ [][EnsureSocketCalled =>
             IF Attempts(client) # {}
             THEN /\ client'.sockets = client.sockets
                  /\ NewRequest.phase = "connecting"
                  /\ client.promises[NewRequest.wait].ws \in Attempts(client)
             ELSE IF client.socket # 0 /\ client.sockets[client.socket].state = "OPEN"
             THEN /\ client'.sockets = client.sockets
                  /\ NewRequest.phase = "sent"
                  /\ NewRequest.ws = client.socket
             ELSE client.urlOk =>
                  /\ Len(client'.sockets) = Len(client.sockets) + 1
                  /\ SubSeq(client'.sockets, 1, Len(client.sockets)) = client.sockets
                  /\ Attempts(client') = {Len(client'.sockets)}
                  /\ client'.socket = Len(client'.sockets)
                  /\ NewRequest.phase = "connecting"
                  /\ client'.promises[NewRequest.wait] =
                        [state |-> "pending", ws |-> Len(client'.sockets)]]_vars

\* two calls were made while the first socket was being opened: both wait for
\* the promise of that one attempt
C33_Witness ==
    /\ Len(client.requests) = 2
    /\ Len(client.sockets) = 1
    /\ client.sockets[1].state = "CONNECTING"
    /\ client.requests[1].phase = "connecting"
    /\ client.requests[2].phase = "connecting"
    /\ client.requests[1].wait = client.requests[2].wait

\* the requests this step takes out of pending
LeavePending == client.pending \ client'.pending

\* C34: a pending request is rejected with "WebSocket connection closed."
\* only when the socket it was sent on closes: the close event of a socket
\* rejects no request that was sent on another socket.
C34_CloseRejectsOwnRequests ==
    [][client'.last.op = "close" =>
          \A id \in LeavePending : client.requests[id].ws = client'.last.ws]_vars

----------------------------------------------------------------------------
(* C37, C38: subscriptions and their unsubscribe functions *)

\* the on calls made so far: each is a registration
Registrations == {n \in 1..Len(busCalls) : busCalls[n].op = "on"}

\* the unsubscribe function of registration n was called, or clear was
\* called, after call n and before call k
Ended(n, k) ==
    \E j \in (n + 1)..(k - 1) :
        \/ busCalls[j].op = "clear"
        \/ busCalls[j].op = "unsubscribe" /\ busCalls[j].reg = n

\* handler h is invoked during bus call k
Invoked(h, k) == \E i \in 1..Len(delivered) : delivered[i].call = k /\ delivered[i].handler = h

\* C37: after the unsubscribe function returned by on(event, handler) has
\* been called, no later emit of the event invokes the handler for that
\* registration (an emit invokes a handler only if one of its registrations
\* for the event has not ended), every handler with a registration for the
\* event and no unsubscribe call is still invoked, and calling an
\* unsubscribe function again, or after clear(), changes nothing.
C37_Unsubscribe ==
    /\ [](\A k \in 1..Len(busCalls) :
             busCalls[k].op = "emit" =>
                 /\ \A h \in BusHandlers :
                       Invoked(h, k) =>
                           \E n \in Registrations :
                               /\ n < k
                               /\ busCalls[n].event = busCalls[k].event
                               /\ busCalls[n].handler = h
                               /\ ~Ended(n, k)
                 /\ \A n \in Registrations :
                       /\ n < k
                       /\ busCalls[n].event = busCalls[k].event
                       /\ ~Ended(n, k)
                       /\ ~\E j \in 1..(k - 1) :
                             /\ busCalls[j].op = "unsubscribe"
                             /\ busCalls[j].event = busCalls[n].event
                             /\ busCalls[j].handler = busCalls[n].handler
                       => Invoked(busCalls[n].handler, k))
    /\ [][/\ Len(busCalls') = Len(busCalls) + 1
          /\ LET k == Len(busCalls')
             IN  /\ busCalls'[k].op = "unsubscribe"
                 /\ \E j \in (busCalls'[k].reg + 1)..(k - 1) :
                       \/ busCalls'[j].op = "clear"
                       \/ busCalls'[j].op = "unsubscribe" /\ busCalls'[j].reg = busCalls'[k].reg
          => handlers' = handlers]_vars

\* C38: subscriptions are per registration: when the same handler is
\* registered twice for the same event, calling the unsubscribe function of
\* one registration leaves the other active; every emit of an event invokes
\* the handler of every registration for it that has not ended.
C38_PerRegistration ==
    \A k \in 1..Len(busCalls) :
        busCalls[k].op = "emit" =>
            \A n \in Registrations :
                /\ n < k
                /\ busCalls[n].event = busCalls[k].event
                /\ ~Ended(n, k)
                => Invoked(busCalls[n].handler, k)

----------------------------------------------------------------------------
(* The fill modes of the refill *)

\* C39: in the refill, fill mode "rodillo" and an unset fill mode give what
\* "cascade" gives for the same handle map and step: the grid is gridAfter,
\* the handle map (keys and symbols) and the destroyed handles are those of
\* the gravity refill, and the phase lasts 600 ms; only "replace" gives the
\* in-place map, in 400 ms.
C39_FillModeDispatch ==
    refill.called =>
        LET removed == removeSetOf(refill.step)
        IN  /\ refill.grid = RefillGridAfter
            /\ refill.mode \in {"cascade", "rodillo", "unset"} =>
                  /\ refill.after = gravityRefill(refill.before, refill.step, removed,
                                                  RefillSize.rows, RefillSize.cols)
                  /\ refill.destroyed = gravityDestroyed(refill.before, removed)
                  /\ refill.duration = 600
            /\ refill.mode = "replace" =>
                  /\ refill.after = replaceRefill(refill.before, RefillGridAfter, removed,
                                                  RefillSize.rows, RefillSize.cols)
                  /\ refill.duration = 400

\* a rodillo refill of a complete board with (2, 0) removed and one symbol
\* dropped into column 0: the two handles above fall by one row
C39_Witness ==
    /\ refill.called
    /\ refill.mode = "rodillo"
    /\ DOMAIN refill.before = RefillCoords
    /\ RefillRemoved = {<<2, 0>>}
    /\ RefillDropSymbols(0) = <<"X">>
    /\ refill.after[<<0, 0>>] = "X"
    /\ refill.after[<<1, 0>>] = "h00"
    /\ refill.after[<<2, 0>>] = "h10"
    /\ refill.destroyed = {"h20"}
    /\ refill.duration = 600

----------------------------------------------------------------------------
(* Transient effect objects of the scene: who destroys them                *)

MaxEffectCalls == 2
\* sparks of one explosion (16 in playExplosion), kept small
MaxSparks == 2

EffectsRest == <<sceneVars, refill, page, client, measured, highlight, money, machineVars, busVars>>

\* objs: every effect object created so far, in creation order; pending: the
\* delayed calls and the tweens with an onComplete that the scene's clock and
\* tween manager hold; calls: effect methods called so far
EffectsInit ==
    /\ SceneAtRest
    /\ refill = <<>>
    /\ page = <<>>
    /\ client = <<>>
    /\ measured = <<>>
    /\ highlight = <<>>
    /\ money = <<>>
    /\ MachineInit
    /\ BusInit
    /\ effects = [objs |-> <<>>, pending |-> {}, calls |-> 0, mounted |-> TRUE]

EffectObject(kind) == [kind |-> kind, destroyed |-> FALSE]

\* a delayed call ("timer") or a tween with an onComplete ("tween"): what its
\* callback does, and to which objects (positions in objs)
Cleanup(type, does, targets) == [type |-> type, does |-> does, targets |-> targets]

CanCallEffect == effects.mounted /\ effects.calls < MaxEffectCalls

\* playMatchContour: glow and stroke, destroyed by delayedCall(MATCH_CONTOUR_DURATION)
playMatchContour ==
    /\ CanCallEffect
    /\ LET n == Len(effects.objs)
       IN  effects' = [effects EXCEPT
                          !.objs = @ \o <<EffectObject("glow"), EffectObject("stroke")>>,
                          !.pending = @ \cup {Cleanup("timer", "destroy", {n + 1, n + 2})},
                          !.calls = @ + 1]
    /\ UNCHANGED EffectsRest

\* playBonusTriggerHighlight, one target: the badge is faded out and destroyed
\* from delayedCall(1200 + delay), each ring by its own tween's onComplete
playBonusTriggerHighlight ==
    /\ CanCallEffect
    /\ LET n == Len(effects.objs)
       IN  effects' = [effects EXCEPT
                          !.objs = @ \o <<EffectObject("badge"), EffectObject("ring"),
                                          EffectObject("outerRing")>>,
                          !.pending = @ \cup {Cleanup("timer", "fadeBadge", {n + 1}),
                                              Cleanup("tween", "destroy", {n + 2}),
                                              Cleanup("tween", "destroy", {n + 3})},
                          !.calls = @ + 1]
    /\ UNCHANGED EffectsRest

\* playExplosion: flash, sparks and ring, each destroyed by its tween's
\* onComplete; delayedCall(600) destroys the sparks and the ring still active
playExplosion ==
    /\ CanCallEffect
    /\ LET n == Len(effects.objs)
           sparks == (n + 2)..(n + 1 + MaxSparks)
           ring == n + 2 + MaxSparks
       IN  effects' = [effects EXCEPT
                          !.objs = @ \o <<EffectObject("flash")>>
                                     \o [i \in 1..MaxSparks |-> EffectObject("spark")]
                                     \o <<EffectObject("explosionRing")>>,
                          !.pending = @ \cup {Cleanup("tween", "destroy", {n + 1}),
                                              Cleanup("tween", "destroy", {ring}),
                                              Cleanup("timer", "destroy", sparks \cup {ring})}
                                        \cup {Cleanup("tween", "destroy", {i}) : i \in sparks},
                          !.calls = @ + 1]
    /\ UNCHANGED EffectsRest

\* destroy() of every target (a no-op on a destroyed object)
DestroyObjects(objs, targets) ==
    [i \in 1..Len(objs) |-> IF i \in targets THEN [objs[i] EXCEPT !.destroyed = TRUE] ELSE objs[i]]

\* the callback of a delayed call or the onComplete of a tween runs
RunCleanup(e, c) ==
    IF c.does = "fadeBadge"
    THEN [e EXCEPT !.pending = (@ \ {c}) \cup
                        {Cleanup("tween", "destroy", {i}) : i \in {j \in c.targets : ~e.objs[j].destroyed}}]
    ELSE [e EXCEPT !.pending = @ \ {c}, !.objs = DestroyObjects(@, c.targets)]

\* the clock fires a delayed call
TimerFires(c) ==
    /\ c \in effects.pending
    /\ c.type = "timer"
    /\ effects' = RunCleanup(effects, c)
    /\ UNCHANGED EffectsRest

\* a tween reaches its end
TweenCompletes(c) ==
    /\ c \in effects.pending
    /\ c.type = "tween"
    /\ effects' = RunCleanup(effects, c)
    /\ UNCHANGED EffectsRest

\* renderPlay / clearBoard: this.time.removeAllEvents(); this.tweens.killAll();
\* drawGrid destroys the handles of cellMap only (with nothing pending the
\* call changes nothing here)
CancelRun ==
    /\ effects.mounted
    /\ effects.pending # {}
    /\ effects' = [effects EXCEPT !.pending = {}]
    /\ UNCHANGED EffectsRest

\* the component unmounts: gameRef.current?.destroy(true)
Unmount ==
    /\ effects.mounted
    /\ effects' = [effects EXCEPT !.mounted = FALSE, !.pending = {},
                                  !.objs = DestroyObjects(@, 1..Len(@))]
    /\ UNCHANGED EffectsRest

EffectsNext ==
    \/ playMatchContour
    \/ playBonusTriggerHighlight
    \/ playExplosion
    \/ \E c \in effects.pending : TimerFires(c)
    \/ \E c \in effects.pending : TweenCompletes(c)
    \/ CancelRun
    \/ Unmount

EffectsSpec == EffectsInit /\ [][EffectsNext]_vars

\* the clock and the tween manager keep running while the scene lives
FairEffectsSpec ==
    /\ EffectsSpec
    /\ WF_vars(\E c \in effects.pending : TimerFires(c))
    /\ WF_vars(\E c \in effects.pending : TweenCompletes(c))

MaxEffectObjects == MaxEffectCalls * (MaxSparks + 2)

\* C36: every transient effect object (contour graphics, bonus badge and
\* rings, explosion flash, sparks and ring) is eventually destroyed, also
\* when renderPlay or clearBoard cancels the run it belongs to.
C36_EffectsDestroyed ==
    \A i \in 1..MaxEffectObjects :
        [](Len(effects.objs) >= i
             => <>(Len(effects.objs) >= i /\ effects.objs[i].destroyed))

====
